---- MODULE Spec2Model ----
(***************************************************************************)
(* Model of the candidate upload handler (POST /api/candidates/upload) of  *)
(* the job-candidate-management server: image extraction, header           *)
(* detection, synonym mapping, deep-parsing fallback, validation,          *)
(* duplicate check and the final batch insert, over a candidate store,     *)
(* an image directory and a temporary uploaded file; and of the routes     *)
(* behind verifyToken and verifyRole: candidate edit and delete, the       *)
(* interview routes and the role change of a user.                         *)
(*                                                                         *)
(* Text is modelled as a sequence of one-character strings, so that the    *)
(* handler's normalisation, substring tests and regular expressions are    *)
(* computed character by character as the code computes them.              *)
(***************************************************************************)
EXTENDS Integers, Sequences, FiniteSets, TLC

\* ------------------------------------------------------------------ text

UpperSeq ==
  <<"A","B","C","D","E","F","G","H","I","J","K","L","M",
    "N","O","P","Q","R","S","T","U","V","W","X","Y","Z">>

LowerSeq ==
  <<"a","b","c","d","e","f","g","h","i","j","k","l","m",
    "n","o","p","q","r","s","t","u","v","w","x","y","z">>

DigitSeq ==
  <<"0","1","2","3","4","5","6","7","8","9">>

Range(f) ==
  { f[i] : i \in DOMAIN f }

UpperLetters ==
  Range(UpperSeq)

LowerLetters ==
  Range(LowerSeq)

Letters ==
  UpperLetters \cup LowerLetters

Digits ==
  Range(DigitSeq)

\* String.prototype.toLowerCase, one character
ToLowerChar(c) ==
  IF c \in UpperLetters
    THEN LowerSeq[CHOOSE i \in DOMAIN UpperSeq : UpperSeq[i] = c]
    ELSE c

\* String.prototype.toLowerCase
ToLowerCase(s) ==
  [i \in 1..Len(s) |-> ToLowerChar(s[i])]

\* \s of the regular expressions, on the characters the workbooks use
IsSpace(c) ==
  c = " "

\* String.prototype.includes
Includes(s, sub) ==
  \E i \in 0..(Len(s) - Len(sub)) : SubSeq(s, i + 1, i + Len(sub)) = sub

\* s.startsWith(sub, i - 1): sub occurs in s at the 1-based position i
At(s, i, sub) ==
  /\ i >= 1
  /\ i + Len(sub) - 1 <= Len(s)
  /\ SubSeq(s, i, i + Len(sub) - 1) = sub

\* String.prototype.trim
Trim(s) ==
  LET nonSpace == { i \in 1..Len(s) : ~IsSpace(s[i]) }
  IN  IF nonSpace = {} THEN <<>>
      ELSE LET lo == CHOOSE i \in nonSpace : \A j \in nonSpace : i <= j
               hi == CHOOSE i \in nonSpace : \A j \in nonSpace : i >= j
           IN  SubSeq(s, lo, hi)

\* replace(/[^a-z0-9]/g, '')
StripNonAlnum(s) ==
  SelectSeq(s, LAMBDA c : c \in LowerLetters \cup Digits)

\* decimal digits of a natural number, as String(n) prints them
RECURSIVE NatToStr(_)
NatToStr(n) ==
  IF n < 10 THEN <<DigitSeq[n + 1]>>
  ELSE NatToStr(n \div 10) \o <<DigitSeq[(n % 10) + 1]>>

\* Array.prototype.join(' ') over already converted cells
RECURSIVE JoinSpace(_)
JoinSpace(parts) ==
  IF parts = <<>> THEN <<>>
  ELSE IF Len(parts) = 1 THEN parts[1]
  ELSE parts[1] \o <<" ">> \o JoinSpace(Tail(parts))

\* ------------------------------------------------------------ cell values

\* A cell of sheet_to_json(sheet, {header: 1}): a string, a number, or a hole
\* (an empty cell is never assigned, so it reads as undefined).
Undef ==
  [t |-> "undef", s |-> <<>>, n |-> 0]

Str(chars) ==
  [t |-> "str", s |-> chars, n |-> 0]

Num(k) ==
  [t |-> "num", s |-> <<>>, n |-> k]

\* JavaScript truthiness of a cell value
Truthy(v) ==
  \/ v.t = "str" /\ v.s # <<>>
  \/ v.t = "num" /\ v.n # 0

\* a conversion to text that gives the empty text for undefined
TextOrEmpty(v) ==
  CASE v.t = "str" -> v.s
    [] v.t = "num" -> NatToStr(v.n)
    [] OTHER -> <<>>

\* String(v)
ToStr(v) ==
  CASE v.t = "str" -> v.s
    [] v.t = "num" -> NatToStr(v.n)
    [] OTHER -> <<"u","n","d","e","f","i","n","e","d">>

\* String(v || '')
ToStrOrEmpty(v) ==
  IF Truthy(v) THEN ToStr(v) ELSE <<>>

\* a || b || ... : the first truthy operand, else the last operand
RECURSIVE OrChain(_)
OrChain(vals) ==
  IF Len(vals) = 1 THEN vals[1]
  ELSE IF Truthy(vals[1]) THEN vals[1]
  ELSE OrChain(Tail(vals))

\* ----------------------------------------------------------- regex helpers

Min2(a, b) ==
  IF a <= b THEN a ELSE b

\* the least element of a non-empty set of integers
MinOf(S) ==
  CHOOSE x \in S : \A y \in S : x <= y

\* the greatest element of a non-empty set of integers
MaxOf(S) ==
  CHOOSE x \in S : \A y \in S : x >= y

\* length of the longest run of characters of `class` that starts at
\* position j of s (a greedy character-class repetition)
RunLen(s, j, class) ==
  LET stops == { k \in j..Len(s) : s[k] \notin class }
  IN  IF j > Len(s) THEN 0
      ELSE IF stops = {} THEN Len(s) - j + 1
      ELSE MinOf(stops) - j

SpaceChars ==
  {" "}

\* [0-9\-\s]
PhoneChars ==
  Digits \cup {"-"} \cup SpaceChars

\* [\d.]
AgeChars ==
  Digits \cup {"."}

\* [a-zA-Z0-9._%+-]
EmailLocalChars ==
  Letters \cup Digits \cup {".", "_", "%", "+", "-"}

\* [a-zA-Z0-9.-]
EmailDomainChars ==
  Letters \cup Digits \cup {".", "-"}

\* a phone pattern that takes one character less after the first digit
PhoneMinTailShort ==
  8 - 1

PhoneMinTail ==
  8

PhoneMaxTail ==
  15

\* /\+?[0-9][0-9\-\s]{8,15}/ anchored at position i: the position of the
\* leading digit, or 0 when the pattern does not match at i
PhoneDigitAt(s, i) ==
  LET d == IF s[i] = "+" THEN i + 1 ELSE i
  IN  IF /\ d <= Len(s)
         /\ s[d] \in Digits
         /\ RunLen(s, d + 1, PhoneChars) >= PhoneMinTail
      THEN d ELSE 0

\* compositeString.match(/\+?[0-9][0-9\-\s]{8,15}/): match[0], or Undef
PhoneMatch(s) ==
  LET starts == { i \in 1..Len(s) : PhoneDigitAt(s, i) # 0 }
  IN  IF starts = {} THEN Undef
      ELSE LET i == MinOf(starts)
               d == PhoneDigitAt(s, i)
           IN  Str(SubSeq(s, i, d + Min2(RunLen(s, d + 1, PhoneChars), PhoneMaxTail)))

NameLabel ==
  <<"n","a","m","e",":">>

AgeLabel ==
  <<"a","g","e",":">>

\* (?:Age|Location|University|Degree|$), lower-cased for the i flag
NameStops ==
  { <<"a","g","e">>,
    <<"l","o","c","a","t","i","o","n">>,
    <<"u","n","i","v","e","r","s","i","t","y">>,
    <<"d","e","g","r","e","e">> }

\* \s*(?:Age|Location|University|Degree|$) matches right after position e
NameEndsAt(s, e) ==
  LET q == e + 1 + RunLen(s, e + 1, SpaceChars)
  IN  \/ q > Len(s)
      \/ \E stop \in NameStops : At(ToLowerCase(s), q, stop)

\* compositeString.match(/Name:\s*(.*?)\s*(?:Age|Location|University|Degree|$)/i):
\* match[1], or Undef
NameMatch(s) ==
  LET starts == { i \in 1..Len(s) : At(ToLowerCase(s), i, NameLabel) }
  IN  IF starts = {} THEN Undef
      ELSE LET i == MinOf(starts)
               p == i + Len(NameLabel) + RunLen(s, i + Len(NameLabel), SpaceChars)
               e == MinOf({ k \in (p - 1)..Len(s) : NameEndsAt(s, k) })
           IN  Str(SubSeq(s, p, e))

\* /Age:\s*([\d.]+)/i anchored at i: the position of the group, or 0
AgeGroupAt(s, i) ==
  LET p == i + Len(AgeLabel) + RunLen(s, i + Len(AgeLabel), SpaceChars)
  IN  IF At(ToLowerCase(s), i, AgeLabel) /\ RunLen(s, p, AgeChars) >= 1
      THEN p ELSE 0

\* compositeString.match(/Age:\s*([\d.]+)/i): match[1], or Undef
AgeMatch(s) ==
  LET starts == { i \in 1..Len(s) : AgeGroupAt(s, i) # 0 }
  IN  IF starts = {} THEN Undef
      ELSE LET p == AgeGroupAt(s, MinOf(starts))
           IN  Str(SubSeq(s, p, p + RunLen(s, p, AgeChars) - 1))

TldMinLen ==
  2

\* the dots of the domain run that starts at d0 after which at least two
\* letters follow: where \.[a-zA-Z]{2,} can match
EmailDots(s, d0) ==
  { k \in (d0 + 1)..(d0 + RunLen(s, d0, EmailDomainChars) - 1) :
      s[k] = "." /\ RunLen(s, k + 1, Letters) >= TldMinLen }

\* /[a-zA-Z0-9._%+-]+@[a-zA-Z0-9.-]+\.[a-zA-Z]{2,}/ anchored at i: the
\* position of the last character of the match, or 0
EmailEndAt(s, i) ==
  LET a == i + RunLen(s, i, EmailLocalChars)
  IN  IF /\ a > i
         /\ a <= Len(s)
         /\ s[a] = "@"
         /\ EmailDots(s, a + 1) # {}
      THEN LET k == MaxOf(EmailDots(s, a + 1))
           IN  k + RunLen(s, k + 1, Letters)
      ELSE 0

\* compositeString.match(/[a-zA-Z0-9._%+-]+@[a-zA-Z0-9.-]+\.[a-zA-Z]{2,}/):
\* match[0], or Undef
EmailMatch(s) ==
  LET starts == { i \in 1..Len(s) : EmailEndAt(s, i) # 0 }
  IN  IF starts = {} THEN Undef
      ELSE LET i == MinOf(starts)
           IN  Str(SubSeq(s, i, EmailEndAt(s, i)))

\* -------------------------------------------------------- header locator

\* keywords (line 445), as text
Keywords ==
  { <<"n","a","m","e">>,
    <<"e","m","a","i","l">>,
    <<"p","h","o","n","e">>,
    <<"c","o","n","t","a","c","t">>,
    <<"m","o","b","i","l","e">>,
    <<"e","x","p","e","r","i","e","n","c","e">>,
    <<"a","g","e">> }

\* a scan window of one row more
ScanLimitWide ==
  20 + 1

\* the scan window of the header loop
ScanLimit ==
  20

\* the match count from which a row is taken as the header row
MatchThreshold ==
  2

\* String(cell || '').toLowerCase().replace(/[^a-z0-9]/g, '')
NormalizeCell(cell) ==
  StripNonAlnum(ToLowerCase(ToStrOrEmpty(cell)))

\* row.map(cell => ...): the normalized cells, position by position
NormalizedRow(row) ==
  [i \in 1..Len(row) |-> NormalizeCell(row[i])]

\* normalizedRow.filter(cell => keywords.some(k => cell.includes(k))).length
MatchCount(row) ==
  Cardinality({ i \in 1..Len(row) :
                  \E k \in Keywords : Includes(NormalizeCell(row[i]), k) })

\* a scan without the break: the last index whose row matches, or -1
ScanHeaderLast(rows, i) ==
  LET hits == { j \in i..(Min2(Len(rows), ScanLimit) - 1) :
                  MatchCount(rows[j + 1]) >= MatchThreshold }
  IN  IF hits = {} THEN -1 ELSE MaxOf(hits)

\* the for loop over rows[i], i < Math.min(rows.length, 20), from index i
\* (0-based): the first index whose row matches, or -1
RECURSIVE ScanHeader(_, _)
ScanHeader(rows, i) ==
  IF i >= Min2(Len(rows), ScanLimit) THEN -1
  ELSE IF MatchCount(rows[i + 1]) >= MatchThreshold THEN i
  ELSE ScanHeader(rows, i + 1)

\* headerRowIndex as the handler computes it
LocateHeader(rows) ==
  ScanHeader(rows, 0)

\* headers = normalizedRow of the header row
HeadersOf(rows, h) ==
  NormalizedRow(rows[h + 1])

\* rows.slice(headerRowIndex + 1)
DataRowsOf(rows, h) ==
  SubSeq(rows, h + 2, Len(rows))

\* ----------------------------------------------------------- field mapper

\* the columns rowData.forEach assigns into item: the cell is present and
\* its header is a non-empty text
AssignedCols(headers, rowData) ==
  { i \in 1..Len(rowData) :
      rowData[i] # Undef /\ i <= Len(headers) /\ headers[i] # <<>> }

\* item[key]: the last assigned column under that header, or undefined
ItemGet(headers, rowData, key) ==
  LET cols == { i \in AssignedCols(headers, rowData) : headers[i] = key }
  IN  IF cols = {} THEN Undef ELSE rowData[MaxOf(cols)]

NameSynonyms ==
  << <<"n","a","m","e">>,
     <<"c","a","n","d","i","d","a","t","e">>,
     <<"f","u","l","l","n","a","m","e">>,
     <<"a","p","p","l","i","c","a","n","t","n","a","m","e">>,
     <<"c","a","n","d","i","d","a","t","e","s","n","a","m","e">> >>

EmailSynonyms ==
  << <<"e","m","a","i","l">>,
     <<"e","m","a","i","l","a","d","d","r","e","s","s">>,
     <<"e","a","d","d","r","e","s","s">> >>

PhoneSynonyms ==
  << <<"p","h","o","n","e">>,
     <<"p","h","o","n","e","n","u","m","b","e","r">>,
     <<"c","o","n","t","a","c","t">>,
     <<"m","o","b","i","l","e">>,
     <<"c","e","l","l">> >>

ExpSynonyms ==
  << <<"e","x","p","e","r","i","e","n","c","e","y","e","a","r","s">>,
     <<"y","e","a","r","s","o","f","e","x","p","e","r","i","e","n","c","e">>,
     <<"e","x","p","e","r","i","e","n","c","e">>,
     <<"t","o","t","a","l","e","x","p","e","r","i","e","n","c","e">>,
     <<"y","e","a","r","s","e","x","p","e","r","i","e","n","c","e">> >>

AgeSynonyms ==
  << <<"a","g","e">>,
     <<"c","a","n","d","i","d","a","t","e","a","g","e">>,
     <<"a","g","e","y","r","s">> >>

\* item.a || item.b || ... over one synonym list
MapField(headers, rowData, synonyms) ==
  OrChain([k \in 1..Len(synonyms) |-> ItemGet(headers, rowData, synonyms[k])])

\* let name = ..., email = ..., phone = ..., exp = ..., age = ...
MapSynonyms(headers, rowData) ==
  [ name  |-> MapField(headers, rowData, NameSynonyms),
    email |-> MapField(headers, rowData, EmailSynonyms),
    phone |-> MapField(headers, rowData, PhoneSynonyms),
    exp   |-> MapField(headers, rowData, ExpSynonyms),
    age   |-> MapField(headers, rowData, AgeSynonyms) ]

\* ------------------------------------------------- deep parsing fallback

\* rowData.map(c => String(c || '').trim()).join(' ')
CompositeString(rowData) ==
  JoinSpace([i \in 1..Len(rowData) |-> Trim(ToStrOrEmpty(rowData[i]))])

\* the mapped name is replaced only above this length
NameOverrideLen ==
  50

\* (!email || !phone) && compositeString.includes(':')
FallbackTriggered(f, cs) ==
  /\ ~Truthy(f.email) \/ ~Truthy(f.phone)
  /\ Includes(cs, <<":">>)

\* if (emailMatch && !email) email = emailMatch[0]
FallbackEmail(f, cs) ==
  IF EmailMatch(cs) # Undef /\ ~Truthy(f.email) THEN EmailMatch(cs) ELSE f.email

\* if (phoneMatch && !phone) phone = phoneMatch[0].trim()
FallbackPhone(f, cs) ==
  IF PhoneMatch(cs) # Undef /\ ~Truthy(f.phone)
    THEN Str(Trim(PhoneMatch(cs).s))
    ELSE f.phone

\* a fallback that takes the name of the text whenever it finds one
FallbackNameAlways(f, cs) ==
  IF NameMatch(cs) # Undef THEN Str(Trim(NameMatch(cs).s)) ELSE f.name

\* if (nameMatch && (!name || String(name).length > 50)) name = nameMatch[1].trim()
FallbackName(f, cs) ==
  IF /\ NameMatch(cs) # Undef
     /\ ~Truthy(f.name) \/ Len(ToStr(f.name)) > NameOverrideLen
    THEN Str(Trim(NameMatch(cs).s))
    ELSE f.name

\* if (ageMatch && !age) age = ageMatch[1]
FallbackAge(f, cs) ==
  IF AgeMatch(cs) # Undef /\ ~Truthy(f.age) THEN AgeMatch(cs) ELSE f.age

\* the fields after the fallback block
DeepParse(f, cs) ==
  IF FallbackTriggered(f, cs)
    THEN [ name  |-> FallbackName(f, cs),
           email |-> FallbackEmail(f, cs),
           phone |-> FallbackPhone(f, cs),
           exp   |-> f.exp,
           age   |-> FallbackAge(f, cs) ]
    ELSE f

\* the fields of one data row on reaching the validation
RowFields(headers, rowData) ==
  DeepParse(MapSynonyms(headers, rowData), CompositeString(rowData))

\* ------------------------------------------------------------- validation

Bdjobs ==
  <<"b","d","j","o","b","s">>

Powered ==
  <<"p","o","w","e","r","e","d">>

\* the texts JSON.stringify(item).toLowerCase() is made of: the keys of item
\* and its values (a column overwritten by a later one of the same header is
\* not in item)
ItemTexts(headers, rowData) ==
  LET cols == { i \in AssignedCols(headers, rowData) :
                  \A j \in AssignedCols(headers, rowData) :
                    headers[j] = headers[i] => j <= i }
  IN  { headers[i] : i \in cols } \cup
      { ToLowerCase(ToStr(rowData[i])) : i \in cols }

\* rowStr.includes('bdjobs') || rowStr.includes('powered')
IsBoilerplate(headers, rowData) ==
  \E t \in ItemTexts(headers, rowData) : Includes(t, Bdjobs) \/ Includes(t, Powered)

\* a validation that asks for the name only
NameMissing(f) ==
  ~Truthy(f.name)

\* !name || (!email && !phone)
FailsValidation(f) ==
  ~Truthy(f.name) \/ (~Truthy(f.email) /\ ~Truthy(f.phone))

\* a validation block whose second continue does not ask for the name
ValidationIgnoringName(f, headers, rowData, nProcessed) ==
  IF IsBoilerplate(headers, rowData) THEN "silent"
  ELSE IF nProcessed > 0 /\ ~Truthy(f.email) THEN "silent"
  ELSE "error"

\* what the validation block does with a failing row: "silent" for the two
\* continue statements, "error" for the errors.push
ValidationOutcome(f, headers, rowData, nProcessed) ==
  IF IsBoilerplate(headers, rowData) THEN "silent"
  ELSE IF nProcessed > 0 /\ ~Truthy(f.name) /\ ~Truthy(f.email) THEN "silent"
  ELSE "error"

\* ------------------------------------------------------- number coercion

\* the value of Number(v): not-a-number, or an integer part and the decimal
\* digits after the point (without trailing zeros)
NaN ==
  [nan |-> TRUE, int |-> 0, frac |-> <<>>]

NumberVal(i, f) ==
  [nan |-> FALSE, int |-> i, frac |-> f]

Zero ==
  NumberVal(0, <<>>)

\* the value of a run of decimal digits (0 for the empty run)
RECURSIVE DigitsToNat(_)
DigitsToNat(ds) ==
  IF ds = <<>> THEN 0
  ELSE 10 * DigitsToNat(SubSeq(ds, 1, Len(ds) - 1))
       + (CHOOSE d \in 0..9 : DigitSeq[d + 1] = ds[Len(ds)])

\* a run of decimal digits without its trailing zeros
RECURSIVE StripTrailingZeros(_)
StripTrailingZeros(ds) ==
  IF ds # <<>> /\ ds[Len(ds)] = "0"
    THEN StripTrailingZeros(SubSeq(ds, 1, Len(ds) - 1))
    ELSE ds

\* Number(text) for the unsigned decimal texts the workbooks and the age
\* pattern produce; any other text is not a number
NumberOfText(s) ==
  LET t == Trim(s)
      dots == { i \in 1..Len(t) : t[i] = "." }
  IN  IF t = <<>> THEN Zero
      ELSE IF \E i \in 1..Len(t) : t[i] \notin AgeChars THEN NaN
      ELSE IF dots = {} THEN NumberVal(DigitsToNat(t), <<>>)
      ELSE IF Cardinality(dots) > 1 \/ Len(t) = 1 THEN NaN
      ELSE LET d == MinOf(dots)
           IN  NumberVal(DigitsToNat(SubSeq(t, 1, d - 1)),
                         StripTrailingZeros(SubSeq(t, d + 1, Len(t))))

\* Number(v)
NumberOf(v) ==
  CASE v.t = "num" -> NumberVal(v.n, <<>>)
    [] v.t = "str" -> NumberOfText(v.s)
    [] OTHER -> NaN

\* a conversion without the || 0 default
NumberKeepingNaN(v) ==
  NumberOf(v)

\* Number(v) || 0
NumberOrZero(v) ==
  IF NumberOf(v).nan THEN Zero ELSE NumberOf(v)

\* ------------------------------------------------------- image extraction

PngMagic ==
  <<137, 80, 78, 71>>

JpgMagic ==
  <<255, 216, 255>>

GifMagic ==
  <<71, 73, 70>>

ExtPng ==
  <<"p","n","g">>

ExtJpg ==
  <<"j","p","g">>

ExtGif ==
  <<"g","i","f">>

\* ['emf', 'wmf']
NonBrowserFormats ==
  { <<"e","m","f">>, <<"w","m","f">> }

\* buffer[0..k-1] equals the signature
HasMagic(head, magic) ==
  Len(head) >= Len(magic) /\ SubSeq(head, 1, Len(magic)) = magic

\* an extension taken from the hint of the workbook alone
ExtensionHint(img) ==
  img.extension

\* the extension after the buffer signature detection
DetectExtension(img) ==
  IF HasMagic(img.head, PngMagic) THEN ExtPng
  ELSE IF HasMagic(img.head, JpgMagic) THEN ExtJpg
  ELSE IF HasMagic(img.head, GifMagic) THEN ExtGif
  ELSE img.extension

\* ['emf', 'wmf'].includes(extension.toLowerCase())
IsSkippedFormat(ext) ==
  ToLowerCase(ext) \in NonBrowserFormats

\* Math.floor(image.range.tl.row), the anchor being kept in tenths of a row
ImageRow(img) ==
  img.anchor \div 10

\* `photo-${Date.now()}-${row}.${extension}`
FileName(t, row, ext) ==
  [t |-> t, row |-> row, ext |-> ext]

\* the empty photo of a record ("" in the code)
NoPhoto ==
  [t |-> -1, row |-> -1, ext |-> <<>>]

\* imageMap[row], NoPhoto standing for undefined
MapGet(map, row) ==
  IF row \in DOMAIN map THEN map[row] ELSE NoPhoto

\* imageMap[row] = path
MapPut(map, row, path) ==
  [k \in DOMAIN map \cup {row} |-> IF k = row THEN path ELSE map[k]]

\* fs.writeFileSync(imgPath, buffer)
SinkWrite(files, path, blob) ==
  [k \in DOMAIN files \cup {path} |-> IF k = path THEN blob ELSE files[k]]

\* fs.unlinkSync(path)
SinkDelete(files, path) ==
  [k \in DOMAIN files \ {path} |-> files[k]]

\* a conflict rule that keeps the smaller buffer
KeepsSmaller(size, existingSize) ==
  size >= existingSize

\* buffer.length <= existingSize: the image already kept for the row stays
KeepsExisting(size, existingSize) ==
  size <= existingSize

\* ------------------------------------------------------------------ store

\* a lookup that never finds a record
FindNothing(docs, email) ==
  0

\* candidatesCollection.findOne({ email }): position of the first record
\* with that email, or 0
FindByEmail(docs, email) ==
  LET hits == { i \in 1..Len(docs) : docs[i].email = email }
  IN  IF hits = {} THEN 0 ELSE MinOf(hits)

\* an update that adds a document instead of patching the one it matched
UpdateAddsDocument(docs, email, photo) ==
  IF docs = <<>> THEN docs ELSE Append(docs, [docs[1] EXCEPT !.photo = photo])

\* updateOne({ email }, { $set: { photo } })
UpdatePhoto(docs, email, photo) ==
  LET i == FindByEmail(docs, email)
  IN  IF i = 0 THEN docs ELSE [docs EXCEPT ![i].photo = photo]

\* insertMany(documents), ordered: documents are inserted one by one; one
\* that carries the _id of a stored record stops the batch with an error
RECURSIVE InsertMany(_, _, _)
InsertMany(docs, batch, nid) ==
  IF batch = <<>> THEN [docs |-> docs, nextId |-> nid, ok |-> TRUE]
  ELSE LET d == batch[1]
       IN  IF d.id # 0 /\ \E i \in 1..Len(docs) : docs[i].id = d.id
             THEN [docs |-> docs, nextId |-> nid, ok |-> FALSE]
           ELSE IF d.id # 0
             THEN InsertMany(Append(docs, d), Tail(batch), nid)
           ELSE InsertMany(Append(docs, [d EXCEPT !.id = nid]), Tail(batch), nid + 1)

\* the uid of the caller (req.user.uid)
CallerUid ==
  "test-uid-123"

\* const candidate = { name, email, phone: String(phone), ... }
NewCandidate(f, photo) ==
  [ id               |-> 0,
    name             |-> f.name,
    email            |-> f.email,
    phone            |-> ToStr(f.phone),
    experience_years |-> NumberOrZero(f.exp),
    age              |-> NumberOrZero(f.age),
    photo            |-> photo,
    status           |-> "pending",
    createdBy        |-> CallerUid,
    updated          |-> FALSE ]

\* { ...existing, photo, updated: true }
UpdatedEntry(existing, photo) ==
  [existing EXCEPT !.photo = photo, !.updated = TRUE]

\* { $set: fields } on a candidate record, for the fields a request body of
\* the edit route carries
SetFields(rec, fields) ==
  [rec EXCEPT
     !.id     = IF "_id" \in DOMAIN fields THEN fields["_id"] ELSE @,
     !.email  = IF "email" \in DOMAIN fields THEN fields["email"] ELSE @,
     !.name   = IF "name" \in DOMAIN fields THEN fields["name"] ELSE @,
     !.status = IF "status" \in DOMAIN fields THEN fields["status"] ELSE @]

\* an edit that sets every field of the body
SetAllFields(rec, updates) ==
  SetFields(rec, updates)

\* delete updates._id; delete updates.email; { $set: updates }
ApplyUpdates(rec, updates) ==
  SetFields(rec, [k \in DOMAIN updates \ {"_id", "email"} |-> updates[k]])

\* --------------------------------------------------------- access control

\* req.headers.authorization?.split(' ')[1]: the text between the first and
\* the second blank of the header, <<>> standing for undefined and for ''
TokenOf(header) ==
  LET blanks == { i \in 1..Len(header) : header[i] = " " }
  IN  IF blanks = {} THEN <<>>
      ELSE LET a == MinOf(blanks)
               later == { i \in blanks : i > a }
               b == IF later = {} THEN Len(header) + 1 ELSE MinOf(later)
           IN  SubSeq(header, a + 1, b - 1)

\* admin.auth().verifyIdToken(token): the uid of the tokens the identity
\* service accepts, "" for a token it rejects
VerifyIdToken(token) ==
  CASE token = <<"t","1">> -> "uid-staff"
    [] token = <<"t","2">> -> "uid-candidate"
    [] token = <<"t","3">> -> "uid-norole"
    [] token = <<"t","4">> -> "uid-unknown"
    [] OTHER -> ""

\* verifyToken: 401 without a token or with a rejected one; the development
\* token stands for the seed user; 0 stands for next()
VerifyToken(header) ==
  LET token == TokenOf(header)
  IN  IF token = <<>> THEN [status |-> 401, uid |-> ""]
      ELSE IF token = <<"D","E","V","_","T","O","K","E","N">>
        THEN [status |-> 0, uid |-> CallerUid]
      ELSE IF VerifyIdToken(token) # ""
        THEN [status |-> 0, uid |-> VerifyIdToken(token)]
      ELSE [status |-> 401, uid |-> ""]

\* a role check that admits every uid that has a user record
VerifyRoleAnyRecord(uid, table, allowedRoles) ==
  IF \E i \in 1..Len(table) : table[i].uid = uid THEN 0 ELSE 404

\* verifyRole(allowedRoles): 404 without a user record, 403 unless the
\* record has a role whose lower-cased text is in the list, 0 for next()
VerifyRole(uid, table, allowedRoles) ==
  LET hits == { i \in 1..Len(table) : table[i].uid = uid }
  IN  IF uid = "" THEN 401
      ELSE IF hits = {} THEN 404
      ELSE IF /\ table[MinOf(hits)].role # <<>>
              /\ ToLowerCase(table[MinOf(hits)].role) \in allowedRoles
        THEN 0
      ELSE 403

\* the middleware chain verifyToken, verifyRole([...]) of a route: 0 when
\* the handler runs, else the status of the answer; a failing lookup of the
\* user (dbOk false) ends in the catch block of verifyRole
Gate(header, table, allowedRoles, dbOk) ==
  IF VerifyToken(header).status # 0 THEN VerifyToken(header).status
  ELSE IF ~dbOk THEN 500
  ELSE VerifyRole(VerifyToken(header).uid, table, allowedRoles)

\* the allowed roles the routes are declared with
AllowedRoles(route) ==
  CASE route \in {"users", "userRole", "edit", "delete"} -> {<<"a","d","m","i","n">>}
    [] OTHER -> {<<"a","d","m","i","n">>, <<"s","t","a","f","f">>}

\* the role-gated routes
Routes ==
  {"users", "userRole", "upload", "candidates", "edit", "delete",
   "schedule", "interviews", "interviewStatus", "phones"}

\* the Authorization header of the upload requests: the development token,
\* whose uid is the caller's
DevHeader ==
  <<"B","e","a","r","e","r"," ","D","E","V","_","T","O","K","E","N">>

\* the Authorization headers of the requests: none, the development token
\* without and with a scheme, the id tokens of four accounts, a token the
\* identity service rejects
AuthHeaders ==
  { <<>>, <<"D","E","V","_","T","O","K","E","N">>, <<"B","e","a","r","e","r"," ">> \o <<"D","E","V","_","T","O","K","E","N">>,
    <<"B","e","a","r","e","r"," ">> \o <<"t","1">>, <<"B","e","a","r","e","r"," ">> \o <<"t","2">>,
    <<"B","e","a","r","e","r"," ">> \o <<"t","3">>, <<"B","e","a","r","e","r"," ">> \o <<"t","4">>,
    <<"B","e","a","r","e","r"," ">> \o <<"b","a","d">> }

\* the users collection at the start: the seed user, a staff member and a
\* candidate, and an account whose record has no role
SeedUsers ==
  << [uid |-> CallerUid,       role |-> <<"A","d","m","i","n">>],
     [uid |-> "uid-staff",     role |-> <<"S","T","A","F","F">>],
     [uid |-> "uid-candidate", role |-> <<"c","a","n","d","i","d","a","t","e">>],
     [uid |-> "uid-norole",    role |-> <<>>] >>

\* -------------------------------------------------------------- workbooks

\* The uploaded workbooks the handler is run on.  rows is the view
\* sheet_to_json(sheet, {header: 1}) gives (an empty sheet row is <<>>, an
\* empty cell is Undef); images is exSheet.getImages() joined with the media
\* list: the anchor row in tenths, the format hint, the leading bytes and the
\* byte length of the buffer.

\* a title, an empty row, the header at index 2 and one data row
AliceRows ==
  << <<Str(<<"C","a","n","d","i","d","a","t","e"," ","L","i","s","t">>)>>,
     <<>>,
     <<Str(<<"N","a","m","e">>), Str(<<"E","m","a","i","l">>), Str(<<"P","h","o","n","e">>)>>,
     <<Str(<<"A","l","i","c","e">>), Str(<<"a","l","i","c","e","@","x",".","c","o","m">>), Num(5551234)>> >>

\* one picture anchored in sheet row 3
AliceImages ==
  << [id |-> 1, anchor |-> 35, extension |-> <<"p","n","g">>, head |-> PngMagic, size |-> 2000] >>

\* two data rows that carry the same email
DupRows ==
  << <<Str(<<"F","u","l","l"," ","N","a","m","e">>), Str(<<"E","-","m","a","i","l"," ","A","d","d","r","e","s","s">>), Str(<<"M","o","b","i","l","e">>)>>,
     <<Str(<<"C","a","r","o","l">>), Str(<<"c","a","r","o","l","@","x",".","c","o","m">>), Str(<<"0","1","7","1","1","-","0","0","0","0","0","1">>)>>,
     <<Str(<<"C","a","r","o","l"," ","K">>), Str(<<"c","a","r","o","l","@","x",".","c","o","m">>), Str(<<"0","1","7","1","1","-","0","0","0","0","0","2">>)>> >>

\* a picture on the second of them
DupImages ==
  << [id |-> 1, anchor |-> 20, extension |-> <<"j","p","e","g">>, head |-> JpgMagic, size |-> 900] >>

\* a row for Bob, with a picture, followed by a row for Dan
BobRows ==
  << <<Str(<<"N","a","m","e">>), Str(<<"E","m","a","i","l">>), Str(<<"P","h","o","n","e">>), Str(<<"A","g","e">>)>>,
     <<Str(<<"B","o","b">>), Str(<<"b","o","b","@","x",".","c","o","m">>), Str(<<"0","1","7","1","1","-","0","0","0","0","0","3">>), Num(31)>>,
     <<Str(<<"D","a","n">>), Str(<<"d","a","n","@","x",".","c","o","m">>), Str(<<"0","1","7","1","1","-","0","0","0","0","0","4">>), Num(40)>> >>

\* the picture of Bob
BobImages ==
  << [id |-> 1, anchor |-> 10, extension |-> <<"p","n","g">>, head |-> PngMagic, size |-> 1200] >>

NoHeaderPreamble ==
  << <<Str(<<"R","e","p","o","r","t">>)>>,
     <<Str(<<"N","a","m","e">>)>> >> \o [i \in 1..18 |-> <<>>]

\* twenty rows without a header, then a row of header names at index 20
NoHeaderRows ==
  NoHeaderPreamble \o
  << <<Str(<<"N","a","m","e">>), Str(<<"E","m","a","i","l">>), Str(<<"P","h","o","n","e">>)>>,
     <<Str(<<"Z","e","d">>), Str(<<"z","e","d","@","x",".","c","o","m">>), Str(<<"0","1","7","1","1","-","0","0","0","0","0","9">>)>> >>

\* a picture on the data row
NoHeaderImages ==
  << [id |-> 1, anchor |-> 210, extension |-> <<"p","n","g">>, head |-> PngMagic, size |-> 800] >>

\* a row with one match, a row with two, then a row with four
TiesRows ==
  << <<Str(<<"N","a","m","e"," ","l","i","s","t">>)>>,
     <<Str(<<"N","a","m","e">>), Str(<<"P","h","o","n","e">>)>>,
     <<Str(<<"N","a","m","e">>), Str(<<"E","m","a","i","l">>), Str(<<"P","h","o","n","e">>), Str(<<"A","g","e">>)>>,
     <<Str(<<"G","i","n","a">>), Str(<<"0","1","7","1","1","-","0","0","0","0","0","5">>)>> >>

\* a picture whose bytes carry no known signature and one with GIF bytes
\* under a png hint
TiesImages ==
  << [id |-> 1, anchor |-> 30, extension |-> <<"b","m","p">>, head |-> <<66, 77, 54, 0>>, size |-> 300],
     [id |-> 2, anchor |-> 20, extension |-> <<"p","n","g">>, head |-> <<71, 73, 70, 56>>, size |-> 400] >>

\* a name cell of 51 characters
LongName ==
  [i \in 1..51 |-> "x"]

\* composite text rows, boilerplate rows, rows that miss a field, and rows
\* whose text names a field that a column gives as well
JaneRows ==
  << <<Str(<<"N","a","m","e">>), Str(<<"E","m","a","i","l">>), Str(<<"P","h","o","n","e">>), Str(<<"S","u","m","m","a","r","y">>)>>,
     <<Undef, Undef, Undef, Str(<<"N","a","m","e",":"," ","J","a","n","e"," ","D","o","e"," ","A","g","e",":"," ","2","9"," ","P","h","o","n","e",":"," ","5","5","5","-","1","2","3","4">>)>>,
     <<Str(<<"E","v","e">>), Undef, Undef, Str(<<"P","o","w","e","r","e","d"," ","b","y"," ","B","d","j","o","b","s">>)>>,
     <<Str(<<"H","a","l">>), Str(<<"h","a","l","@","x",".","c","o","m">>), Undef, Str(<<"A","g","e",":"," ","3","3",".","5","0"," ","P","h","o","n","e",":"," ","+","8","8","0"," ","1","7","1","1","-","0","0","0","0","0","6">>)>>,
     <<Str(<<"I","v","y">>), Undef, Undef, Str(<<"n","/","a">>)>>,
     <<Undef, Undef, Undef, Str(<<"F","o","o","t","e","r"," ","t","e","x","t">>)>>,
     <<Undef, Str(<<"k","i","m","@","x",".","c","o","m">>)>>,
     <<Str(<<"K","a","y">>), Undef, Str(<<"0","1","7","1","1","-","0","0","0","0","0","7">>), Str(<<"N","a","m","e",":"," ","K","a","y"," ","L","e","e"," ","A","g","e",":"," ","3","0"," ","P","h","o","n","e",":"," ","0","1","9","9","9","-","0","0","0","0","0","8">>)>>,
     <<Str(LongName), Undef, Str(<<"0","1","7","1","1","-","0","0","0","0","1","0">>), Str(<<"N","a","m","e",":"," ","L","e","x"," ","A","g","e",":"," ","2","2">>)>> >>

JaneImages ==
  <<>>

\* three data rows and an empty row between them
PicsRows ==
  << <<Str(<<"N","a","m","e">>), Str(<<"E","m","a","i","l">>)>>,
     <<Str(<<"L","e","e">>), Str(<<"l","e","e","@","x",".","c","o","m">>)>>,
     <<Str(<<"M","i","a">>), Str(<<"m","i","a","@","x",".","c","o","m">>)>>,
     <<>>,
     <<Str(<<"N","e","d">>), Str(<<"n","e","d","@","x",".","c","o","m">>)>> >>

\* a small then a large picture in row 1, a large then a small one in row 2,
\* and a metafile in row 4
PicsImages ==
  << [id |-> 1, anchor |-> 10, extension |-> <<"p","n","g">>, head |-> PngMagic, size |-> 500],
     [id |-> 2, anchor |-> 14, extension |-> <<"j","p","g">>, head |-> PngMagic, size |-> 2000],
     [id |-> 3, anchor |-> 20, extension |-> <<"j","p","e","g">>, head |-> JpgMagic, size |-> 2000],
     [id |-> 4, anchor |-> 29, extension |-> <<"j","p","e","g">>, head |-> JpgMagic, size |-> 500],
     [id |-> 5, anchor |-> 40, extension |-> <<"E","M","F">>, head |-> <<0, 0, 0, 0>>, size |-> 700] >>

\* a row with two keywords in one cell, a row with the keyword name in two
\* cells, and a row with text in a column without header
NamesRows ==
  << <<Str(<<"N","a","m","e"," ","/"," ","E","m","a","i","l">>)>>,
     <<Str(<<"N","a","m","e">>), Str(<<"C","a","n","d","i","d","a","t","e"," ","N","a","m","e">>)>>,
     <<Undef, Undef, Str(<<"F","o","o","t","e","r">>)>> >>

NamesImages ==
  <<>>

\* two columns for the years of experience and two for the age: a row whose
\* first column of each pair holds 0, a row with a decimal text, a row with
\* a text that is no number and no age, and a row with the text 0 as age
YearsRows ==
  << <<Str(<<"N","a","m","e">>), Str(<<"E","m","a","i","l">>), Str(<<"E","x","p","e","r","i","e","n","c","e"," ","Y","e","a","r","s">>), Str(<<"E","x","p","e","r","i","e","n","c","e">>), Str(<<"A","g","e">>), Str(<<"C","a","n","d","i","d","a","t","e"," ","A","g","e">>)>>,
     <<Str(<<"A","n","n">>), Str(<<"a","n","n","@","x",".","c","o","m">>), Num(0), Num(5), Num(0), Num(30)>>,
     <<Str(<<"B","e","n">>), Str(<<"b","e","n","@","x",".","c","o","m">>), Str(<<"2",".","5">>), Undef, Num(41)>>,
     <<Str(<<"C","y">>), Str(<<"c","y","@","x",".","c","o","m">>), Str(<<"n","/","a">>)>>,
     <<Str(<<"D","i">>), Str(<<"d","i","@","x",".","c","o","m">>), Num(7), Undef, Str(<<"0">>)>> >>

WorkbookNames ==
  {"alice", "dup", "bob", "noheader", "ties", "jane", "pics", "names",
   "years"}

\* the workbook of that name
Workbook(w) ==
  CASE w = "alice"    -> [rows |-> AliceRows,    images |-> AliceImages]
    [] w = "dup"      -> [rows |-> DupRows,      images |-> DupImages]
    [] w = "bob"      -> [rows |-> BobRows,      images |-> BobImages]
    [] w = "noheader" -> [rows |-> NoHeaderRows, images |-> NoHeaderImages]
    [] w = "ties"     -> [rows |-> TiesRows,     images |-> TiesImages]
    [] w = "jane"     -> [rows |-> JaneRows,     images |-> JaneImages]
    [] w = "pics"     -> [rows |-> PicsRows,     images |-> PicsImages]
    [] w = "names"    -> [rows |-> NamesRows,    images |-> NamesImages]
    [] w = "years"    -> [rows |-> YearsRows,    images |-> <<>>]

\* -------------------------------------------------------------- interviews

\* the first and the last day of the clock of the interview routes, as days
\* of one month
FirstDay ==
  10

LastDay ==
  11

\* the interviews a behaviour schedules at most
MaxInterviews ==
  2

\* now.toISOString().split('T')[0]: the day as YYYY-MM-DD text
IsoDay(d) ==
  <<"2","0","2","6","-","0","1","-">>
    \o <<DigitSeq[(d \div 10) + 1], DigitSeq[(d % 10) + 1]>>

\* a < b in the order $lt compares two texts in: character by character, a
\* proper prefix first ("-" sorts before the digits)
RECURSIVE TextLess(_, _)
TextLess(a, b) ==
  LET rank(c) == IF c = "-" THEN 0
                 ELSE 1 + (CHOOSE d \in 0..9 : DigitSeq[d + 1] = c)
  IN  IF b = <<>> THEN FALSE
      ELSE IF a = <<>> THEN TRUE
      ELSE IF a[1] # b[1] THEN rank(a[1]) < rank(b[1])
      ELSE TextLess(Tail(a), Tail(b))

\* an update that completes the interviews dated up to and including today
AutoCompleteThroughToday(list, todayStr) ==
  [i \in DOMAIN list |->
     IF list[i].status = "Scheduled" /\ ~TextLess(todayStr, list[i].date)
       THEN [list[i] EXCEPT !.status = "Completed"]
       ELSE list[i]]

\* updateMany({ status: 'Scheduled', date: { $lt: todayStr } },
\*            { $set: { status: 'Completed' } })
AutoComplete(list, todayStr) ==
  [i \in DOMAIN list |->
     IF list[i].status = "Scheduled" /\ TextLess(list[i].date, todayStr)
       THEN [list[i] EXCEPT !.status = "Completed"]
       ELSE list[i]]

\* ------------------------------------------------------------------ state

\* the upload requests that can be in progress at once
Runs ==
  {1, 2}

\* the number of upload requests of a behaviour
MaxUploads ==
  2

\* the last value of the millisecond clock
MaxClock ==
  1

VARIABLES
  store,      \* the candidates collection, in insertion order
  nextId,     \* the next _id the store hands out
  sink,       \* the files of the candidates image directory: name -> blob
  dirExists,  \* the candidates image directory exists
  now,        \* Date.now()
  cur,        \* the request whose synchronous code is running, 0 for none
  uploads,    \* upload requests received so far
  run,        \* per request: the locals of the handler and its position
  users,      \* the users collection: uid and role of each record
  interviews, \* the interviews collection, in insertion order
  today,      \* the day of new Date()
  resp        \* the answer to the last request to a role-gated route

\* the state of the routes beside the upload
apiVars ==
  <<users, interviews, today, resp>>

vars ==
  <<store, nextId, sink, dirExists, now, cur, uploads, run, apiVars>>

\* no previous upload was handled in the slot
NoPrev ==
  [wb |-> "", status |-> 0, log |-> <<>>]

\* null, as findOne answers when no record has the email
NoRecord ==
  [ id               |-> 0,
    name             |-> Undef,
    email            |-> Undef,
    phone            |-> <<>>,
    experience_years |-> Zero,
    age              |-> Zero,
    photo            |-> NoPhoto,
    status           |-> "",
    createdBy        |-> "",
    updated          |-> FALSE ]

\* the request slot before a request arrives
IdleRun ==
  [ pc             |-> "idle",
    wb             |-> "",
    status         |-> 0,    \* the HTTP status of the response, 0 before it
    tempFile       |-> FALSE,\* req.file.path exists
    imageMap       |-> <<>>,
    imgIdx         |-> 0,    \* images handled by the forEach so far
    unlinkFailed   |-> FALSE,\* an unlinkSync of a superseded image threw
    headerRowIndex |-> -1,
    rowIdx         |-> 0,    \* data rows handled by the for loop so far
    existing       |-> NoRecord, \* the record findOne returned
    processed      |-> <<>>,
    errors         |-> <<>>,
    log            |-> <<>>, \* per handled data row: its fields and outcome
    inserted       |-> 0,    \* records this request added to the store
    updated        |-> 0,    \* updateOne calls of this request that matched
    up             |-> 0,    \* the number of the request among the uploads
    store0         |-> <<>>, \* the store when the request arrived
    prev           |-> NoPrev ]\* the upload handled before this one

\* a record an earlier upload of a row without picture left in the store
SeedBob ==
  [ id               |-> 1,
    name             |-> Str(<<"B","o","b">>),
    email            |-> Str(<<"b","o","b","@","x",".","c","o","m">>),
    phone            |-> <<"0","1","7","1","1","-","0","0","0","0","0","3">>,
    experience_years |-> Zero,
    age              |-> NumberVal(31, <<>>),
    photo            |-> NoPhoto,
    status           |-> "pending",
    createdBy        |-> CallerUid,
    updated          |-> FALSE ]

\* no request to a role-gated route was answered yet
NoResponse ==
  [route |-> "", header |-> <<>>, status |-> 0, ran |-> FALSE]

SeedStores ==
  { <<>>, <<SeedBob>> }

Init ==
  /\ store \in SeedStores
  /\ nextId = Len(store) + 1
  /\ sink = <<>>
  /\ dirExists = FALSE
  /\ now = 0
  /\ cur = 0
  /\ uploads = 0
  /\ run = [r \in Runs |-> IdleRun]
  /\ users = SeedUsers
  /\ interviews = <<>>
  /\ today = FirstDay
  /\ resp = NoResponse

\* ------------------------------------------------------- handler positions

Rows(r) ==
  Workbook(run[r].wb).rows

Images(r) ==
  Workbook(run[r].wb).images

Headers(r) ==
  HeadersOf(Rows(r), run[r].headerRowIndex)

DataRows(r) ==
  DataRowsOf(Rows(r), run[r].headerRowIndex)

\* the data row the for loop is at
RowData(r) ==
  DataRows(r)[run[r].rowIdx + 1]

\* a sheet position that counts the data rows from the header row
SheetRowFromHeader(h, offset) ==
  h + offset

\* headerRowIndex + 1 + dataRows.indexOf(rowData)
SheetRow(h, offset) ==
  h + 1 + offset

\* imageMap[headerRowIndex + 1 + dataRows.indexOf(rowData)]
RowPhoto(r) ==
  MapGet(run[r].imageMap, SheetRow(run[r].headerRowIndex, run[r].rowIdx))


\* the catch block: res.status(500)
Caught(rec) ==
  [rec EXCEPT !.pc = "done", !.status = 500]

\* fs.unlinkSync(filePath) and the 200 response
Answered(rec) ==
  [rec EXCEPT !.pc = "done", !.status = 200, !.tempFile = FALSE]

\* ---------------------------------------------------------------- actions

\* requests are handled one after the other: a request arrives when no other
\* is in progress, and takes the first slot; the handler is reached through
\* verifyToken and verifyRole(['admin', 'staff'])
CanStart(r) ==
  /\ Gate(DevHeader, users, AllowedRoles("upload"), TRUE) = 0
  /\ cur = 0
  /\ uploads < MaxUploads
  /\ r = MinOf(Runs)
  /\ \A q \in Runs : run[q].pc \in {"idle", "done"}

\* what the slot remembers of the upload it handled before
PrevOf(rec) ==
  IF rec.pc = "done"
    THEN [wb |-> rec.wb, status |-> rec.status, log |-> rec.log]
    ELSE NoPrev

\* the request carries no file: res.status(400).send('No file uploaded')
UploadNoFile(r) ==
  /\ CanStart(r)
  /\ uploads' = uploads + 1
  /\ run' = [run EXCEPT ![r] = [IdleRun EXCEPT !.pc = "done", !.status = 400]]
  /\ UNCHANGED <<store, nextId, sink, dirExists, now, cur, apiVars>>

\* the request carries workbook w: multer has stored it, the handler starts
\* reading it (xlsx.readFile, await exWorkbook.xlsx.readFile)
UploadStart(r, w) ==
  /\ CanStart(r)
  /\ uploads' = uploads + 1
  /\ run' = [run EXCEPT ![r] =
               [IdleRun EXCEPT !.pc = "read", !.wb = w, !.tempFile = TRUE,
                               !.up = uploads + 1, !.store0 = store,
                               !.prev = PrevOf(run[r])]]
  /\ UNCHANGED <<store, nextId, sink, dirExists, now, cur, apiVars>>

\* reading the workbook throws
ReadFails(r) ==
  /\ cur = 0
  /\ run[r].pc = "read"
  /\ run' = [run EXCEPT ![r] = Caught(@)]
  /\ UNCHANGED <<store, nextId, sink, dirExists, now, cur, uploads, apiVars>>

\* the workbook is read; if (!fs.existsSync(imagesDir)) fs.mkdirSync(...)
\* in its try block: a failing mkdirSync leaves the directory missing
ReadDone(r) ==
  /\ cur = 0
  /\ run[r].pc = "read"
  /\ dirExists' \in (IF dirExists THEN {TRUE} ELSE BOOLEAN)
  /\ run' = [run EXCEPT ![r].pc = "images"]
  /\ cur' = r
  /\ UNCHANGED <<store, nextId, sink, now, uploads, apiVars>>

\* the image the forEach is at
NextImage(r) ==
  Images(r)[run[r].imgIdx + 1]

\* the forEach callback returns without writing: a metafile, or an image
\* not larger than the one already kept for its row
ImageSkipped(r) ==
  LET img == NextImage(r)
      existingPath == MapGet(run[r].imageMap, ImageRow(img))
  IN  \/ IsSkippedFormat(DetectExtension(img))
      \/ /\ existingPath # NoPhoto
         /\ existingPath \in DOMAIN sink
         /\ KeepsExisting(img.size, sink[existingPath].size)

SkipImage(r) ==
  /\ cur = r
  /\ run[r].pc = "images"
  /\ run[r].imgIdx < Len(Images(r))
  /\ ImageSkipped(r)
  /\ run' = [run EXCEPT ![r].imgIdx = @ + 1]
  /\ UNCHANGED <<store, nextId, sink, dirExists, now, cur, uploads, apiVars>>

\* fs.statSync(path.join(process.cwd(), existingPath)) throws: the kept image
\* is not at that path (the images are written under /tmp/uploads in
\* production, or the file is gone); the exception leaves the forEach and
\* reaches the catch block
StatFails(r) ==
  /\ cur = r
  /\ run[r].pc = "images"
  /\ run[r].imgIdx < Len(Images(r))
  /\ ~IsSkippedFormat(DetectExtension(NextImage(r)))
  /\ MapGet(run[r].imageMap, ImageRow(NextImage(r))) # NoPhoto
  /\ run' = [run EXCEPT ![r] = Caught(@)]
  /\ cur' = 0
  /\ UNCHANGED <<store, nextId, sink, dirExists, now, uploads, apiVars>>

\* the image is to be written: it is the first of its row, or larger than
\* the one kept
ImageAccepted(r) ==
  LET img == NextImage(r)
      existingPath == MapGet(run[r].imageMap, ImageRow(img))
  IN  /\ ~IsSkippedFormat(DetectExtension(img))
      /\ existingPath # NoPhoto =>
           /\ existingPath \in DOMAIN sink
           /\ ~KeepsExisting(img.size, sink[existingPath].size)

\* the files after try { fs.unlinkSync(existing) } catch (e) { }
AfterUnlink(files, existingPath, unlinkOk) ==
  IF existingPath # NoPhoto /\ unlinkOk
    THEN SinkDelete(files, existingPath)
    ELSE files

\* the blob of an image: the upload it came with, its number in the
\* workbook and its byte length
Blob(up, img) ==
  [up |-> up, id |-> img.id, size |-> img.size]

\* fs.writeFileSync(imgPath, buffer); imageMap[row] = path, after the
\* superseded image, if any, was unlinked
WriteImage(r) ==
  /\ cur = r
  /\ run[r].pc = "images"
  /\ run[r].imgIdx < Len(Images(r))
  /\ ImageAccepted(r)
  /\ dirExists
  /\ now' \in {now, Min2(now + 1, MaxClock)}
  /\ LET img == NextImage(r)
         row == ImageRow(img)
         existingPath == MapGet(run[r].imageMap, row)
         fileName == FileName(now', row, DetectExtension(img))
     IN  \E unlinkOk \in (IF existingPath = NoPhoto THEN {TRUE} ELSE BOOLEAN) :
           /\ sink' = SinkWrite(AfterUnlink(sink, existingPath, unlinkOk),
                                fileName, Blob(run[r].up, img))
           /\ run' = [run EXCEPT ![r].imgIdx = @ + 1,
                                 ![r].imageMap = MapPut(@, row, fileName),
                                 ![r].unlinkFailed = @ \/ ~unlinkOk]
  /\ UNCHANGED <<store, nextId, dirExists, cur, uploads, apiVars>>

\* fs.writeFileSync throws because the image directory is missing (no image
\* of this request was written before, so none is superseded)
WriteFails(r) ==
  /\ cur = r
  /\ run[r].pc = "images"
  /\ run[r].imgIdx < Len(Images(r))
  /\ ImageAccepted(r)
  /\ ~dirExists
  /\ run' = [run EXCEPT ![r] = Caught(@)]
  /\ cur' = 0
  /\ UNCHANGED <<store, nextId, sink, dirExists, now, uploads, apiVars>>

\* the header scan after the forEach; without a header row the temporary
\* file is unlinked and the answer is 400
FindHeader(r) ==
  /\ cur = r
  /\ run[r].pc = "images"
  /\ run[r].imgIdx = Len(Images(r))
  /\ LET h == LocateHeader(Rows(r))
     IN  IF h = -1
           THEN /\ run' = [run EXCEPT ![r].pc = "done", ![r].status = 400,
                                      ![r].tempFile = FALSE]
                /\ cur' = 0
           ELSE /\ run' = [run EXCEPT ![r].pc = "rows", ![r].headerRowIndex = h]
                /\ cur' = r
  /\ UNCHANGED <<store, nextId, sink, dirExists, now, uploads, apiVars>>

\* 'N/A'
NotAvailable ==
  <<"N","/","A">>

\* `Skipped: Missing Name/Email. Found: ${name || 'N/A'}, ${email || 'N/A'}`
MissingError(f) ==
  [ kind  |-> "missing",
    name  |-> IF Truthy(f.name) THEN ToStr(f.name) ELSE NotAvailable,
    email |-> IF Truthy(f.email) THEN ToStr(f.email) ELSE NotAvailable ]

\* `Skipped: Email ${email} already exists`
ExistsError(f) ==
  [kind |-> "exists", name |-> <<>>, email |-> ToStr(f.email)]

\* the loop goes on with the next data row
NextRow(rec, f, outcome) ==
  [rec EXCEPT !.rowIdx = @ + 1,
              !.pc = "rows",
              !.log = Append(@, [offset |-> rec.rowIdx, fields |-> f,
                                 outcome |-> outcome])]

\* processed.push(candidate)
Staged(rec, f, photo) ==
  [NextRow(rec, f, "new") EXCEPT !.processed = Append(@, NewCandidate(f, photo))]

\* a validation block that reports every row it skips
RejectedWithEntry(rec, f, outcome) ==
  [NextRow(rec, f, outcome) EXCEPT !.errors = Append(@, MissingError(f))]

\* the row is skipped by the validation block
Rejected(rec, f, outcome) ==
  [NextRow(rec, f, outcome) EXCEPT
     !.errors = IF outcome = "error" THEN Append(@, MissingError(f)) ELSE @]

\* the fields of an empty row are never computed
NoFields ==
  [name |-> Undef, email |-> Undef, phone |-> Undef, exp |-> Undef, age |-> Undef]

\* one pass of the for loop up to its first await: an empty row and a row
\* that fails the validation are skipped, a row without email is staged, a
\* row with an email waits for findOne
ProcessRow(r) ==
  /\ cur = r
  /\ run[r].pc = "rows"
  /\ run[r].rowIdx < Len(DataRows(r))
  /\ LET rowData == RowData(r)
         f == RowFields(Headers(r), rowData)
     IN  IF Len(rowData) = 0
           THEN /\ run' = [run EXCEPT ![r] = NextRow(@, NoFields, "blank")]
                /\ cur' = r
         ELSE IF FailsValidation(f)
           THEN /\ run' = [run EXCEPT ![r] =
                             Rejected(@, f, ValidationOutcome(f, Headers(r), rowData,
                                                              Len(run[r].processed)))]
                /\ cur' = r
         ELSE IF Truthy(f.email)
           THEN /\ run' = [run EXCEPT ![r].pc = "find"]
                /\ cur' = 0
         ELSE /\ run' = [run EXCEPT ![r] = Staged(@, f, RowPhoto(r))]
              /\ cur' = r
  /\ UNCHANGED <<store, nextId, sink, dirExists, now, uploads, apiVars>>

\* findOne throws
FindFails(r) ==
  /\ cur = 0
  /\ run[r].pc = "find"
  /\ run' = [run EXCEPT ![r] = Caught(@)]
  /\ UNCHANGED <<store, nextId, sink, dirExists, now, cur, uploads, apiVars>>

\* a test that looks at the photo of the row only
PhotoOfRow(existing, photo) ==
  photo # NoPhoto

\* photo && !existing.photo
PhotoToAdd(existing, photo) ==
  photo # NoPhoto /\ existing.photo = NoPhoto

\* findOne answers: without a record of that email the row is staged; with
\* one, the row waits for updateOne when it brings a photo the record lacks,
\* and is skipped as existing otherwise
FindDone(r) ==
  /\ cur = 0
  /\ run[r].pc = "find"
  /\ LET f == RowFields(Headers(r), RowData(r))
         i == FindByEmail(store, f.email)
     IN  IF i = 0
           THEN /\ run' = [run EXCEPT ![r] = Staged(@, f, RowPhoto(r))]
                /\ cur' = r
         ELSE IF PhotoToAdd(store[i], RowPhoto(r))
           THEN /\ run' = [run EXCEPT ![r].pc = "update", ![r].existing = store[i]]
                /\ cur' = 0
         ELSE /\ run' = [run EXCEPT ![r] =
                           [NextRow(@, f, "exists") EXCEPT
                              !.errors = Append(@, ExistsError(f))]]
              /\ cur' = r
  /\ UNCHANGED <<store, nextId, sink, dirExists, now, uploads, apiVars>>

\* updateOne throws
UpdateFails(r) ==
  /\ cur = 0
  /\ run[r].pc = "update"
  /\ run' = [run EXCEPT ![r] = Caught(@)]
  /\ UNCHANGED <<store, nextId, sink, dirExists, now, cur, uploads, apiVars>>

\* updateOne has set the photo; processed.push({ ...existing, photo, updated: true })
UpdateDone(r) ==
  /\ cur = 0
  /\ run[r].pc = "update"
  /\ LET f == RowFields(Headers(r), RowData(r))
         photo == RowPhoto(r)
     IN  /\ store' = UpdatePhoto(store, f.email, photo)
         /\ run' = [run EXCEPT ![r] =
                      [NextRow(@, f, "updated") EXCEPT
                         !.processed = Append(@, UpdatedEntry(run[r].existing, photo)),
                         !.updated = @ + (IF FindByEmail(store, f.email) = 0 THEN 0 ELSE 1)]]
  /\ cur' = r
  /\ UNCHANGED <<nextId, sink, dirExists, now, uploads, apiVars>>

\* the documents handed to insertMany
Batch(rec) ==
  rec.processed

\* the loop is over: if (processed.length > 0) await insertMany(processed),
\* else the temporary file is unlinked and the report is sent
EndRows(r) ==
  /\ cur = r
  /\ run[r].pc = "rows"
  /\ run[r].rowIdx = Len(DataRows(r))
  /\ run' = [run EXCEPT ![r] = IF Len(Batch(@)) > 0
                                 THEN [@ EXCEPT !.pc = "insert"]
                                 ELSE Answered(@)]
  /\ cur' = 0
  /\ UNCHANGED <<store, nextId, sink, dirExists, now, uploads, apiVars>>

\* insertMany throws before the store has taken a document
InsertFails(r) ==
  /\ cur = 0
  /\ run[r].pc = "insert"
  /\ run' = [run EXCEPT ![r] = Caught(@)]
  /\ UNCHANGED <<store, nextId, sink, dirExists, now, cur, uploads, apiVars>>

\* insertMany returns, or throws on a duplicate _id after the documents
\* before it were inserted; on success the temporary file is unlinked and
\* the report { added: processed.length, errors } is sent
InsertDone(r) ==
  /\ cur = 0
  /\ run[r].pc = "insert"
  /\ LET res == InsertMany(store, Batch(run[r]), nextId)
     IN  /\ store' = res.docs
         /\ nextId' = res.nextId
         /\ run' = [run EXCEPT ![r] =
                      IF res.ok
                        THEN Answered([@ EXCEPT !.inserted = Len(res.docs) - Len(store)])
                        ELSE Caught([@ EXCEPT !.inserted = Len(res.docs) - Len(store)])]
  /\ UNCHANGED <<sink, dirExists, now, cur, uploads, apiVars>>

Next ==
  \/ \E r \in Runs : UploadNoFile(r)
  \/ \E r \in Runs, w \in WorkbookNames : UploadStart(r, w)
  \/ \E r \in Runs : ReadFails(r)
  \/ \E r \in Runs : ReadDone(r)
  \/ \E r \in Runs : SkipImage(r)
  \/ \E r \in Runs : StatFails(r)
  \/ \E r \in Runs : WriteImage(r)
  \/ \E r \in Runs : WriteFails(r)
  \/ \E r \in Runs : FindHeader(r)
  \/ \E r \in Runs : ProcessRow(r)
  \/ \E r \in Runs : FindFails(r)
  \/ \E r \in Runs : FindDone(r)
  \/ \E r \in Runs : UpdateFails(r)
  \/ \E r \in Runs : UpdateDone(r)
  \/ \E r \in Runs : EndRows(r)
  \/ \E r \in Runs : InsertFails(r)
  \/ \E r \in Runs : InsertDone(r)

Spec ==
  Init /\ [][Next]_vars

\* -------------------------------------------------- interleaved requests

\* the workbooks of the requests that are handled at the same time
ConcWorkbooks ==
  {"alice", "bob", "pics"}

\* the k-th request takes slot k, whatever the other request is doing, once
\* no synchronous code is running
CanStartConc(r) ==
  /\ Gate(DevHeader, users, AllowedRoles("upload"), TRUE) = 0
  /\ cur = 0
  /\ uploads < MaxUploads
  /\ r = uploads + 1

\* a request with workbook w arrives while another may be waiting for the
\* store or for the file system
UploadStartConc(r, w) ==
  /\ CanStartConc(r)
  /\ uploads' = uploads + 1
  /\ run' = [run EXCEPT ![r] =
               [IdleRun EXCEPT !.pc = "read", !.wb = w, !.tempFile = TRUE,
                               !.up = uploads + 1, !.store0 = store]]
  /\ UNCHANGED <<store, nextId, sink, dirExists, now, cur, apiVars>>

\* the steps of two upload requests, interleaved at their awaits
NextConc ==
  \/ \E r \in Runs, w \in ConcWorkbooks : UploadStartConc(r, w)
  \/ \E r \in Runs : ReadFails(r)
  \/ \E r \in Runs : ReadDone(r)
  \/ \E r \in Runs : SkipImage(r)
  \/ \E r \in Runs : StatFails(r)
  \/ \E r \in Runs : WriteImage(r)
  \/ \E r \in Runs : WriteFails(r)
  \/ \E r \in Runs : FindHeader(r)
  \/ \E r \in Runs : ProcessRow(r)
  \/ \E r \in Runs : FindFails(r)
  \/ \E r \in Runs : FindDone(r)
  \/ \E r \in Runs : UpdateFails(r)
  \/ \E r \in Runs : UpdateDone(r)
  \/ \E r \in Runs : EndRows(r)
  \/ \E r \in Runs : InsertFails(r)
  \/ \E r \in Runs : InsertDone(r)

SpecConc ==
  Init /\ [][NextConc]_vars

\* ------------------------------------------------- the role-gated routes

\* a second candidate in the store of the routes
SeedDan ==
  [SeedBob EXCEPT !.id = 2,
                  !.name = Str(<<"D","a","n">>),
                  !.email = Str(<<"d","a","n","@","x",".","c","o","m">>)]

\* the answer to a request
Answer(route, header, status, ran) ==
  [route |-> route, header |-> header, status |-> status, ran |-> ran]

\* verifyToken or verifyRole answers the request: the handler is not called
Denied(route, header) ==
  /\ \E status \in { Gate(header, users, AllowedRoles(route), dbOk) :
                        dbOk \in BOOLEAN } \ {0} :
       resp' = Answer(route, header, status, FALSE)
  /\ UNCHANGED <<store, nextId, sink, dirExists, now, cur, uploads, run,
                 users, interviews, today>>

\* GET /api/users, GET /api/candidates, GET /api/candidates/download-phones:
\* the handler reads a collection and answers
ReadRoute(route, header) ==
  /\ Gate(header, users, AllowedRoles(route), TRUE) = 0
  /\ resp' = Answer(route, header, 200, TRUE)
  /\ UNCHANGED <<store, nextId, sink, dirExists, now, cur, uploads, run,
                 users, interviews, today>>

\* PATCH /api/users/:uid/role
SetUserRole(header, uid, role) ==
  /\ Gate(header, users, AllowedRoles("userRole"), TRUE) = 0
  /\ LET targetRole == ToLowerCase(role)
         hits == { i \in 1..Len(users) : users[i].uid = uid }
     IN  IF targetRole \notin {<<"a","d","m","i","n">>, <<"s","t","a","f","f">>, <<"c","a","n","d","i","d","a","t","e">>}
           THEN /\ resp' = Answer("userRole", header, 400, TRUE)
                /\ users' = users
         ELSE IF hits = {}
           THEN /\ resp' = Answer("userRole", header, 404, TRUE)
                /\ users' = users
         ELSE /\ resp' = Answer("userRole", header, 200, TRUE)
              /\ users' = [users EXCEPT ![MinOf(hits)].role = targetRole]
  /\ UNCHANGED <<store, nextId, sink, dirExists, now, cur, uploads, run,
                 interviews, today>>

\* PUT /api/candidates/:id; id 0 stands for a text new ObjectId rejects, and
\* an empty $set is refused by some servers and a no-op on others
EditCandidate(header, id, updates) ==
  /\ Gate(header, users, AllowedRoles("edit"), TRUE) = 0
  /\ LET hits == { i \in 1..Len(store) : store[i].id = id }
         emptySet == DOMAIN updates \ {"_id", "email"} = {}
     IN  IF id = 0
           THEN /\ resp' = Answer("edit", header, 500, TRUE)
                /\ store' = store
         ELSE IF hits = {}
           THEN /\ resp' \in { Answer("edit", header, st, TRUE) :
                                 st \in (IF emptySet THEN {404, 500} ELSE {404}) }
                /\ store' = store
         ELSE \/ /\ resp' = Answer("edit", header, 200, TRUE)
                 /\ store' = [store EXCEPT ![MinOf(hits)] = ApplyUpdates(@, updates)]
              \/ /\ emptySet
                 /\ resp' = Answer("edit", header, 500, TRUE)
                 /\ store' = store
  /\ UNCHANGED <<nextId, sink, dirExists, now, cur, uploads, run,
                 users, interviews, today>>

\* DELETE /api/candidates/:id
DeleteCandidate(header, id) ==
  /\ Gate(header, users, AllowedRoles("delete"), TRUE) = 0
  /\ LET hits == { i \in 1..Len(store) : store[i].id = id }
     IN  IF id = 0
           THEN /\ resp' = Answer("delete", header, 500, TRUE)
                /\ store' = store
         ELSE IF hits = {}
           THEN /\ resp' = Answer("delete", header, 404, TRUE)
                /\ store' = store
         ELSE /\ resp' = Answer("delete", header, 200, TRUE)
              /\ store' = SubSeq(store, 1, MinOf(hits) - 1)
                            \o SubSeq(store, MinOf(hits) + 1, Len(store))
  /\ UNCHANGED <<nextId, sink, dirExists, now, cur, uploads, run,
                 users, interviews, today>>

\* POST /api/interviews: candidateId 0, date <<>> and time "" stand for a
\* missing field; the interview is inserted whether or not the candidate
\* exists, then the candidate's status is set.  The fields no route reads
\* again (time, type, scheduledBy, createdAt) are not kept.
ScheduleInterview(header, candidateId, date, time) ==
  /\ Gate(header, users, AllowedRoles("schedule"), TRUE) = 0
  /\ Len(interviews) < MaxInterviews
  /\ IF candidateId = 0 \/ date = <<>> \/ time = ""
       THEN /\ resp' = Answer("schedule", header, 400, TRUE)
            /\ UNCHANGED <<store, interviews>>
       ELSE /\ resp' = Answer("schedule", header, 201, TRUE)
            /\ interviews' = Append(interviews,
                 [ id          |-> Len(interviews) + 1,
                   candidateId |-> candidateId,
                   date        |-> date,
                   status      |-> "Scheduled" ])
            /\ store' = [i \in 1..Len(store) |->
                 IF store[i].id = candidateId
                   THEN [store[i] EXCEPT !.status = "Interview Scheduled"]
                   ELSE store[i]]
  /\ UNCHANGED <<nextId, sink, dirExists, now, cur, uploads, run, users, today>>

\* GET /api/interviews: the automatic update, then the listing
ListInterviews(header) ==
  /\ Gate(header, users, AllowedRoles("interviews"), TRUE) = 0
  /\ interviews' = AutoComplete(interviews, IsoDay(today))
  /\ resp' = Answer("interviews", header, 200, TRUE)
  /\ UNCHANGED <<store, nextId, sink, dirExists, now, cur, uploads, run,
                 users, today>>

\* PUT /api/interviews/:id/status
SetInterviewStatus(header, id, status) ==
  /\ Gate(header, users, AllowedRoles("interviewStatus"), TRUE) = 0
  /\ LET hits == { i \in 1..Len(interviews) : interviews[i].id = id }
     IN  IF hits = {}
           THEN /\ resp' = Answer("interviewStatus", header, 404, TRUE)
                /\ interviews' = interviews
           ELSE /\ resp' = Answer("interviewStatus", header, 200, TRUE)
                /\ interviews' = [interviews EXCEPT ![MinOf(hits)].status = status]
  /\ UNCHANGED <<store, nextId, sink, dirExists, now, cur, uploads, run,
                 users, today>>

\* midnight (UTC) passes
NextDay ==
  /\ today < LastDay
  /\ today' = today + 1
  /\ UNCHANGED <<store, nextId, sink, dirExists, now, cur, uploads, run,
                 users, interviews, resp>>

\* the request bodies of the edit route: a new name; the identifier and the
\* email of the other candidate with a new status; the email alone
EditBodies ==
  { [k \in {"name"} |-> Str(<<"R","o","b">>)],
    [k \in {"_id", "email", "status"} |->
       CASE k = "_id" -> 2
         [] k = "email" -> Str(<<"d","a","n","@","x",".","c","o","m">>)
         [] OTHER -> "shortlisted"],
    [k \in {"email"} |-> Str(<<"d","a","n","@","x",".","c","o","m">>)] }

InitApi ==
  /\ store = <<SeedBob, SeedDan>>
  /\ nextId = 3
  /\ sink = <<>>
  /\ dirExists = FALSE
  /\ now = 0
  /\ cur = 0
  /\ uploads = 0
  /\ run = [r \in Runs |-> IdleRun]
  /\ users = SeedUsers
  /\ interviews = <<>>
  /\ today = FirstDay
  /\ resp = NoResponse

\* the requests of an administrator and of a staff member to the candidate
\* and interview routes
NextApi ==
  \/ \E h \in {DevHeader, <<"B","e","a","r","e","r"," ","t","1">>}, id \in {0, 1, 3}, updates \in EditBodies :
       EditCandidate(h, id, updates)
  \/ \E h \in {DevHeader, <<"B","e","a","r","e","r"," ","t","1">>}, id \in {0, 1, 3} : DeleteCandidate(h, id)
  \/ \E h \in {DevHeader, <<"B","e","a","r","e","r"," ","t","1">>}, candidateId \in {0, 1},
        date \in { IsoDay(d) : d \in (FirstDay - 1)..FirstDay },
        time \in {"", "10:00"} :
       ScheduleInterview(h, candidateId, date, time)
  \/ \E h \in {DevHeader, <<"B","e","a","r","e","r"," ","t","1">>} : ListInterviews(h)
  \/ \E h \in {DevHeader, <<"B","e","a","r","e","r"," ","t","1">>}, id \in 1..(MaxInterviews + 1) :
       SetInterviewStatus(h, id, "Cancelled")
  \/ NextDay

SpecApi ==
  InitApi /\ [][NextApi]_vars

\* requests with every Authorization header to every role-gated route, while
\* an administrator changes the role of an account
NextGate ==
  \/ \E route \in Routes, h \in AuthHeaders : Denied(route, h)
  \/ \E route \in {"users", "candidates", "phones"}, h \in AuthHeaders :
       ReadRoute(route, h)
  \/ \E h \in AuthHeaders,
        change \in { <<"uid-candidate", <<"S","t","a","f","f">>>>, <<"uid-candidate", <<"b","o","s","s">>>>,
                     <<"uid-unknown", <<"S","t","a","f","f">>>>, <<CallerUid, <<"C","a","n","d","i","d","a","t","e">>>> } :
       SetUserRole(h, change[1], change[2])
  \/ \E h \in AuthHeaders : EditCandidate(h, 1, [k \in {"status"} |-> "shortlisted"])
  \/ \E h \in AuthHeaders : DeleteCandidate(h, 1)
  \/ \E h \in AuthHeaders : ListInterviews(h)
  \/ \E r \in Runs : UploadNoFile(r)

SpecGate ==
  InitApi /\ [][NextGate]_vars

\* ----------------------------------------------------------------- claims

\* no request is in progress
Quiescent ==
  \A r \in Runs : run[r].pc \in {"idle", "done"}

\* at most one record per non-empty email
UniqueEmails(docs) ==
  \A i, j \in 1..Len(docs) :
    (Truthy(docs[i].email) /\ docs[i].email = docs[j].email) => i = j

\* C1: after any sequence of completed uploads, starting from a store with at
\* most one record per non-empty email, the store holds at most one record
\* per non-empty email.
C1_UniqueEmailAfterUploads ==
  Quiescent => UniqueEmails(store)

\* the request in slot r uploads the workbook of the request before it, which
\* was answered 200
SecondPass(r) ==
  /\ run[r].wb # ""
  /\ run[r].prev.wb = run[r].wb
  /\ run[r].prev.status = 200

\* the rows of the first pass whose email was resolved
ResolvedBefore(r) ==
  { k \in DOMAIN run[r].prev.log : Truthy(run[r].prev.log[k].fields.email) }

\* C2 as stated: a second pass over the same workbook inserts no record and
\* skips as "already exists" every row whose email the first pass resolved.
C2_ReuploadSkipsAll ==
  \A r \in Runs :
    (SecondPass(r) /\ run[r].pc = "done" /\ run[r].status = 200) =>
      /\ run[r].inserted = 0
      /\ \A k \in ResolvedBefore(r) : run[r].log[k].outcome = "exists"

\* the records of the store that hold the email
Holders(docs, email) ==
  { i \in 1..Len(docs) : docs[i].email = email }

\* C2 amended: on a second pass over the same workbook, the first having
\* answered 200, no record with an email is staged, and a row that passes the
\* validation with an email is skipped as "already exists", or updates the
\* photo of the first record of its email when the first pass inserted that
\* email more than once; a row accepted without an email is staged again, and
\* a row that fails the validation is rejected again, with or without an
\* entry in errors.
C2_ReuploadStagesNoEmail ==
  \A r \in Runs :
    SecondPass(r) =>
      /\ \A j \in DOMAIN run[r].processed :
           run[r].processed[j].updated \/ ~Truthy(run[r].processed[j].email)
      /\ \A k \in DOMAIN run[r].log :
           LET e == run[r].log[k]
           IN  /\ \/ e.outcome = run[r].prev.log[k].outcome
                  \/ {e.outcome, run[r].prev.log[k].outcome} \subseteq {"silent", "error"}
                  \/ (Truthy(e.fields.email) /\ Truthy(e.fields.name))
               /\ (Truthy(e.fields.email) /\ Truthy(e.fields.name)) =>
                    \/ e.outcome = "exists"
                    \/ /\ e.outcome = "updated"
                       /\ Cardinality(Holders(store, e.fields.email)) > 1

\* a second pass has ended with a row skipped as existing
C2_Witness ==
  \E r \in Runs :
    /\ SecondPass(r)
    /\ run[r].pc = "done"
    /\ run[r].status = 200
    /\ \E k \in DOMAIN run[r].log : run[r].log[k].outcome = "exists"

\* C3 as stated: a row that updates the photo of an existing record is not
\* handed to the store as a new record: no entry of the batch given to
\* insertMany is the copy of an existing record, and up to that call the
\* store has as many records as when the request arrived.
C3_UpdatedRowNotInserted ==
  \A r \in Runs :
    run[r].pc = "insert" =>
      /\ Len(store) = Len(run[r].store0)
      /\ \A j \in DOMAIN Batch(run[r]) : ~Batch(run[r])[j].updated

\* C4 as stated: every upload request that supplied a file ends with the
\* temporary file removed, whatever the outcome.
C4_TempFileRemoved ==
  \A r \in Runs :
    run[r].pc = "done" => ~run[r].tempFile

\* the rows of the workbook within the scan window that reach the threshold
Qualifying(rows) ==
  { i \in 0..(Len(rows) - 1) : i < 20 /\ MatchCount(rows[i + 1]) >= 2 }

\* the request is in the row loop or waits for the store
InRowLoop(r) ==
  run[r].pc \in {"rows", "find", "update", "insert"}

\* C5: when no row among the first 20 qualifies as a header row, the upload
\* answers 400, no data row is processed, no record is inserted or updated,
\* and the temporary file is removed.
C5_NoHeaderAborts ==
  \A r \in Runs :
    (run[r].wb # "" /\ Qualifying(Rows(r)) = {}) =>
      /\ ~InRowLoop(r)
      /\ run[r].log = <<>>
      /\ run[r].processed = <<>>
      /\ store = run[r].store0
      /\ (run[r].pc = "done" /\ run[r].status # 500) =>
           (run[r].status = 400 /\ ~run[r].tempFile)

\* an upload without header row was answered
C5_Witness ==
  \E r \in Runs :
    /\ run[r].wb # ""
    /\ Qualifying(Rows(r)) = {}
    /\ Len(Rows(r)) > 20
    /\ run[r].pc = "done"
    /\ run[r].status = 400

\* the header scan of the request has run
HeaderScanned(r) ==
  /\ run[r].wb # ""
  /\ run[r].headerRowIndex # -1 \/ run[r].status = 400

\* C6: the selected header row is the smallest row index i < 20 whose match
\* count is at least 2: neither a later row with more matches nor a
\* qualifying row at index 20 or beyond is chosen.
C6_FirstQualifyingRow ==
  \A r \in Runs :
    HeaderScanned(r) =>
      IF Qualifying(Rows(r)) = {}
        THEN run[r].headerRowIndex = -1
        ELSE /\ run[r].headerRowIndex \in Qualifying(Rows(r))
             /\ \A i \in Qualifying(Rows(r)) : run[r].headerRowIndex <= i

\* a header row was selected although a later row matches more keywords
C6_Witness ==
  \E r \in Runs :
    /\ HeaderScanned(r)
    /\ run[r].headerRowIndex >= 0
    /\ \E j \in Qualifying(Rows(r)) :
         /\ j > run[r].headerRowIndex
         /\ MatchCount(Rows(r)[j + 1]) > MatchCount(Rows(r)[run[r].headerRowIndex + 1])

JaneText ==
  <<"N","a","m","e",":"," ","J","a","n","e"," ","D","o","e"," ","A","g","e",":"," ","2","9"," ","P","h","o","n","e",":"," ","5","5","5","-","1","2","3","4">>

\* the data row a log entry is about
LoggedRow(r, k) ==
  DataRows(r)[run[r].log[k].offset + 1]

\* the log entries of rows that were not empty
Parsed(r) ==
  { k \in DOMAIN run[r].log : run[r].log[k].outcome # "blank" }

\* C7 as stated: for a row in which field mapping yielded no email and no
\* phone and whose text contains "Name: Jane Doe Age: 29 Phone: 555-1234",
\* the fallback yields name "Jane Doe", age 29 and phone "555-1234".
C7_JaneDoeRecovered ==
  \A r \in Runs : \A k \in Parsed(r) :
    LET m == MapSynonyms(Headers(r), LoggedRow(r, k))
        f == run[r].log[k].fields
    IN  ( /\ ~Truthy(m.email)
          /\ ~Truthy(m.phone)
          /\ Includes(CompositeString(LoggedRow(r, k)), JaneText) ) =>
          /\ f.name = Str(<<"J","a","n","e"," ","D","o","e">>)
          /\ NumberOf(f.age) = NumberVal(29, <<>>)
          /\ f.phone = Str(<<"5","5","5","-","1","2","3","4">>)

\* cs is text after blanks only
AfterBlanks(cs, text) ==
  \E n \in 0..Len(cs) : cs = [i \in 1..n |-> " "] \o text

\* no column gave a field, the cells before the text are empty and none
\* follows it
JaneRow(r, k) ==
  /\ MapSynonyms(Headers(r), LoggedRow(r, k)) = NoFields
  /\ AfterBlanks(CompositeString(LoggedRow(r, k)), JaneText)

\* C7 amended: for a row in which field mapping yielded no field and whose
\* concatenated text is "Name: Jane Doe Age: 29 Phone: 555-1234" preceded by
\* nothing but blanks and followed by nothing, the fallback yields name
\* "Jane Doe" and age 29 and leaves phone and email absent: 555-1234 is
\* shorter than the 9 characters the phone pattern needs.
C7_JaneDoeWithoutPhone ==
  \A r \in Runs : \A k \in Parsed(r) :
    LET f == run[r].log[k].fields
    IN  JaneRow(r, k) =>
          /\ f.name = Str(<<"J","a","n","e"," ","D","o","e">>)
          /\ NumberOf(f.age) = NumberVal(29, <<>>)
          /\ f.phone = Undef
          /\ f.email = Undef

\* such a row has been handled
C7_Witness ==
  \E r \in Runs : \E k \in Parsed(r) : JaneRow(r, k)

\* the row ended with a name and with neither email nor phone
NameOnly(f) ==
  Truthy(f.name) /\ ~Truthy(f.email) /\ ~Truthy(f.phone)

\* the number of log entries with one of the outcomes
CountOutcomes(log, outcomes) ==
  Cardinality({ k \in DOMAIN log : log[k].outcome \in outcomes })

MentionsBoilerplate(headers, rowData) ==
  \E i \in 1..Min2(Len(rowData), Len(headers)) :
    /\ rowData[i] # Undef
    /\ headers[i] # <<>>
    /\ \A j \in (i + 1)..Min2(Len(rowData), Len(headers)) :
         rowData[j] = Undef \/ headers[j] # headers[i]
    /\ \E word \in {Bdjobs, Powered} :
         \/ Includes(headers[i], word)
         \/ Includes(ToLowerCase(ToStr(rowData[i])), word)

ExtractionDone(r) ==
  /\ run[r].wb # ""
  /\ run[r].pc # "read"
  /\ run[r].imgIdx = Len(Images(r))

\* the images of the workbook in row `row` that are not skipped as metafiles
AcceptedInRow(r, row) ==
  { i \in DOMAIN Images(r) :
      ImageRow(Images(r)[i]) = row /\ ~IsSkippedFormat(DetectExtension(Images(r)[i])) }

\* the files of the sink the request wrote for the row
StoredForRow(r, row) ==
  { p \in DOMAIN sink : sink[p].up = run[r].up /\ p.row = row }

\* C9: after image extraction at most one image per sheet row is kept, and of
\* two accepted images of different byte lengths anchored to the same row, in
\* either order, the map entry is the path of the larger one, whose blob is in
\* the sink, while the blob of the smaller one is not (the superseded file
\* having been unlinked).
C9_LargerImageKept ==
  \A r \in Runs :
    (ExtractionDone(r) /\ ~run[r].unlinkFailed) =>
      \A row \in { ImageRow(Images(r)[i]) : i \in DOMAIN Images(r) } :
        /\ Cardinality(StoredForRow(r, row)) <= 1
        /\ \A i, j \in AcceptedInRow(r, row) :
             ( /\ Cardinality(AcceptedInRow(r, row)) = 2
               /\ Images(r)[i].size > Images(r)[j].size ) =>
               LET path == MapGet(run[r].imageMap, row)
               IN  /\ path # NoPhoto
                   /\ path \in DOMAIN sink
                   /\ path.ext = DetectExtension(Images(r)[i])
                   /\ sink[path] = Blob(run[r].up, Images(r)[i])
                   /\ \A p \in DOMAIN sink : sink[p] # Blob(run[r].up, Images(r)[j])

\* extraction has ended for a workbook with a small image followed by a large
\* one in one row and a large one followed by a small one in another
C9_Witness ==
  \E r \in Runs :
    /\ ExtractionDone(r)
    /\ ~run[r].unlinkFailed
    /\ \E i, j \in DOMAIN Images(r) :
         /\ i < j
         /\ {i, j} = AcceptedInRow(r, ImageRow(Images(r)[i]))
         /\ Images(r)[i].size < Images(r)[j].size
    /\ \E i, j \in DOMAIN Images(r) :
         /\ i < j
         /\ {i, j} = AcceptedInRow(r, ImageRow(Images(r)[i]))
         /\ Images(r)[i].size > Images(r)[j].size

\* the position in processed of the entry the k-th log entry staged
StagedIndex(log, k) ==
  Cardinality({ m \in 1..k : log[m].outcome \in {"new", "updated"} })

AliceEmail ==
  Str(<<"a","l","i","c","e","@","x",".","c","o","m">>)

\* C10: the photo of a row accepted as a new record is the image-map entry of
\* sheet row header row index + 1 + the row's offset among the data rows, or
\* empty without such an entry; with the header at index 2, one valid data
\* row and an image anchored at sheet row 3, added is 1, errors is empty and
\* the photo of the record is the stored path of that image.
C10_PhotoFromSheetRow ==
  \A r \in Runs :
    run[r].wb # "" =>
      /\ \A k \in DOMAIN run[r].log :
           run[r].log[k].outcome = "new" =>
             /\ run[r].log[k].offset = k - 1
             /\ run[r].processed[StagedIndex(run[r].log, k)].photo =
                  MapGet(run[r].imageMap, run[r].headerRowIndex + 1 + (k - 1))
      /\ ( /\ run[r].wb = "alice"
           /\ run[r].pc = "done"
           /\ run[r].status = 200
           /\ Holders(run[r].store0, AliceEmail) = {} ) =>
           /\ run[r].headerRowIndex = 2
           /\ Len(run[r].processed) = 1
           /\ run[r].errors = <<>>
           /\ 3 \in DOMAIN run[r].imageMap
           /\ sink[run[r].imageMap[3]] = Blob(run[r].up, AliceImages[1])
           /\ store[Len(store)].email = AliceEmail
           /\ store[Len(store)].photo = run[r].imageMap[3]

\* the workbook with the header at index 2 was uploaded into a store without
\* its email and answered
C10_Witness ==
  \E r \in Runs :
    /\ run[r].wb = "alice"
    /\ run[r].pc = "done"
    /\ run[r].status = 200
    /\ Holders(run[r].store0, AliceEmail) = {}
    /\ Len(run[r].processed) = 1

\* the image of the workbook of request r whose bytes a file holds
ImageOf(r, blob) ==
  Images(r)[blob.id]

\* the extension the leading bytes of an image stand for, the hint when they
\* are no known signature
BytesExtension(img) ==
  LET b == img.head
  IN  IF Len(b) >= 4 /\ b[1] = 137 /\ b[2] = 80 /\ b[3] = 78 /\ b[4] = 71
        THEN <<"p","n","g">>
      ELSE IF Len(b) >= 3 /\ b[1] = 255 /\ b[2] = 216 /\ b[3] = 255
        THEN <<"j","p","g">>
      ELSE IF Len(b) >= 3 /\ b[1] = 71 /\ b[2] = 73 /\ b[3] = 70
        THEN <<"g","i","f">>
      ELSE img.extension

\* C11: every image file an upload has stored, and every entry of its image
\* map, carries the extension its leading bytes stand for (89 50 4E 47 png,
\* FF D8 FF jpg, 47 49 46 gif) and the hint of the workbook only when the
\* bytes are none of these signatures; an image with PNG bytes and a jpg hint
\* is stored as png.
C11_ExtensionFromBytes ==
  \A r \in Runs :
    run[r].wb # "" =>
      /\ \A p \in DOMAIN sink :
           sink[p].up = run[r].up =>
             /\ p.ext = BytesExtension(ImageOf(r, sink[p]))
             /\ ( /\ ImageOf(r, sink[p]).extension = <<"j","p","g">>
                  /\ SubSeq(ImageOf(r, sink[p]).head, 1, 4) = <<137, 80, 78, 71>> ) =>
                  p.ext = <<"p","n","g">>
      /\ \A row \in DOMAIN run[r].imageMap :
           \E i \in DOMAIN Images(r) :
             /\ ImageRow(Images(r)[i]) = row
             /\ run[r].imageMap[row].ext = BytesExtension(Images(r)[i])

\* an image with PNG bytes under a jpg hint is stored
C11_Witness ==
  \E r \in Runs : \E p \in DOMAIN sink :
    /\ run[r].wb # ""
    /\ sink[p].up = run[r].up
    /\ ImageOf(r, sink[p]).extension = <<"j","p","g">>
    /\ SubSeq(ImageOf(r, sink[p]).head, 1, 4) = <<137, 80, 78, 71>>
    /\ p.ext = <<"p","n","g">>

\* the email of the row request r has looked up
LookedUp(r) ==
  RowFields(Headers(r), RowData(r)).email

\* the record findOne returns for the row: the first with its email
Found(r) ==
  store[MinOf(Holders(store, LookedUp(r)))]

\* the lookup of request r answers with a record to which the row has no
\* photo to add
AnswersWithoutNewPhoto(r) ==
  /\ run[r].pc = "find"
  /\ run'[r].pc # "find"
  /\ run'[r].status # 500
  /\ Holders(store, LookedUp(r)) # {}
  /\ \/ Found(r).photo # NoPhoto
     \/ MapGet(run[r].imageMap, run[r].headerRowIndex + 1 + run[r].rowIdx) = NoPhoto

\* C12: when the lookup of a row's email returns a record and that record
\* already has a photo or the row has no image, the step leaves the store
\* unchanged, appends one "already exists" entry for that email to errors,
\* stages nothing (so the row is not counted in added nor inserted later) and
\* goes on with the next row.
C12_ExistingEmailSkipped ==
  [][ \A r \in Runs :
        AnswersWithoutNewPhoto(r) =>
          /\ store' = store
          /\ run'[r].processed = run[r].processed
          /\ run'[r].errors =
               Append(run[r].errors,
                      [kind |-> "exists", name |-> <<>>, email |-> LookedUp(r).s])
          /\ run'[r].rowIdx = run[r].rowIdx + 1
          /\ run'[r].pc = "rows" ]_vars

\* a row with a picture was skipped because its email is in the store
C12_Witness ==
  \E r \in Runs : \E k \in DOMAIN run[r].log :
    /\ run[r].log[k].outcome = "exists"
    /\ MapGet(run[r].imageMap, run[r].headerRowIndex + 1 + (k - 1)) # NoPhoto
    /\ Len(run[r].errors) > 0

\* the upload of request r was aborted for want of a header row
AbortedNoHeader(r) ==
  /\ run[r].wb # ""
  /\ run[r].pc = "done"
  /\ run[r].status = 400

\* C13: an upload that aborts because no header row is found leaves nothing
\* persisted: no record of it is in the store and no image file it wrote is
\* in the sink.
C13_AbortLeavesNothing ==
  \A r \in Runs :
    AbortedNoHeader(r) =>
      /\ store = run[r].store0
      /\ \A p \in DOMAIN sink : sink[p].up # run[r].up

\* the _id values of the records of a store, in order
Ids(docs) ==
  [i \in 1..Len(docs) |-> docs[i].id]

\* C14: until the final insertMany call of an upload has been answered the
\* store holds exactly the records it held when the upload arrived (by _id;
\* only a photo may have been patched), and when the store holds more records
\* after the upload, the upload had handled all its data rows, had staged at
\* least one and had made that call, the new records following the old ones.
C14_NoInsertBeforeBatch ==
  \A r \in Runs :
    run[r].wb # "" =>
      /\ run[r].pc # "done" =>
           /\ Ids(store) = Ids(run[r].store0)
           /\ run[r].inserted = 0
      /\ Ids(store) # Ids(run[r].store0) =>
           /\ run[r].pc = "done"
           /\ run[r].rowIdx = Len(DataRows(r))
           /\ Len(run[r].processed) > 0
           /\ Len(store) = Len(run[r].store0) + run[r].inserted
           /\ SubSeq(Ids(store), 1, Len(run[r].store0)) = Ids(run[r].store0)

\* an upload waits for its batch insert with two records staged and one
\* photo patched
C14_Witness ==
  \E r \in Runs :
    /\ run[r].pc = "insert"
    /\ Len(run[r].processed) >= 2
    /\ run[r].updated > 0
    /\ Ids(store) = Ids(run[r].store0)

\* a cell value that is neither missing nor empty nor zero
Present(v) ==
  v \notin {Undef, Str(<<>>), Num(0)}

\* the phone of a staged record is a text other than the one String() makes
\* of a missing value
PhonePresent(phone) ==
  phone \notin {<<>>, <<"u","n","d","e","f","i","n","e","d">>}

\* C15: every record an upload has staged has a non-empty name and a
\* non-empty email or phone, and a row whose name is absent, or whose email
\* and phone are both absent, is never staged.
C15_StagedRecordsValid ==
  \A r \in Runs :
    /\ \A j \in DOMAIN run[r].processed :
         /\ Present(run[r].processed[j].name)
         /\ \/ Present(run[r].processed[j].email)
            \/ PhonePresent(run[r].processed[j].phone)
    /\ \A k \in Parsed(r) :
         LET f == run[r].log[k].fields
         IN  (~Present(f.name) \/ (~Present(f.email) /\ ~Present(f.phone))) =>
               run[r].log[k].outcome \in {"silent", "error"}

\* an upload has staged a record and has rejected a row with a name only
C15_Witness ==
  \E r \in Runs : \E k \in Parsed(r) :
    /\ Len(run[r].processed) > 0
    /\ Present(run[r].log[k].fields.name)
    /\ ~Present(run[r].log[k].fields.email)
    /\ ~Present(run[r].log[k].fields.phone)

\* C16: every non-blank data row whose name and email are both absent is
\* skipped without an entry in errors, also when it is the first row handled
\* and no row has been accepted before it.
C16_NamelessRowSilent ==
  \A r \in Runs : \A k \in Parsed(r) :
    ( /\ ~Present(run[r].log[k].fields.name)
      /\ ~Present(run[r].log[k].fields.email) ) =>
      /\ run[r].log[k].outcome = "silent"
      /\ \A e \in DOMAIN run[r].errors :
           run[r].errors[e].kind = "missing" =>
             \/ run[r].errors[e].name # NotAvailable
             \/ run[r].errors[e].email # NotAvailable

\* the keywords that occur in at least one normalized cell of a row
KeywordsIn(row) ==
  { k \in Keywords : \E i \in 1..Len(row) : Includes(NormalizeCell(row[i]), k) }

\* the rows the header scan of request r has looked at
ScannedRows(r) ==
  { i \in 0..(Len(Rows(r)) - 1) :
      /\ i < 20
      /\ run[r].headerRowIndex >= 0 => i <= run[r].headerRowIndex }

\* C17: the match count the header scan computes for a row is the number of
\* keywords that occur in at least one normalized cell of the row: a row
\* with one cell containing two keywords counts 2, a row with two cells that
\* contain only the keyword name counts 1.
C17_CountsKeywords ==
  \A r \in Runs :
    HeaderScanned(r) =>
      \A i \in ScannedRows(r) :
        MatchCount(Rows(r)[i + 1]) = Cardinality(KeywordsIn(Rows(r)[i + 1]))

\* the fields the columns of the k-th logged row gave
Mapped(r, k) ==
  MapSynonyms(Headers(r), LoggedRow(r, k))

\* email or phone is absent after the mapping and the text of the row
\* contains a colon
Triggered(r, k) ==
  /\ ~Present(Mapped(r, k).email) \/ ~Present(Mapped(r, k).phone)
  /\ \E i \in DOMAIN CompositeString(LoggedRow(r, k)) :
       CompositeString(LoggedRow(r, k))[i] = ":"

\* C18: the fallback extractor leaves the mapped fields alone: without the
\* trigger name, email, phone, experience and age are the mapped values; with
\* it, email, phone and age differ from the mapped value only when that was
\* absent, and name only when it was absent or longer than 50 characters.
C18_FallbackKeepsMapped ==
  \A r \in Runs : \A k \in Parsed(r) :
    LET m == Mapped(r, k)
        f == run[r].log[k].fields
    IN  /\ f.exp = m.exp
        /\ ~Triggered(r, k) => f = m
        /\ Present(m.email) => f.email = m.email
        /\ Present(m.phone) => f.phone = m.phone
        /\ Present(m.age) => f.age = m.age
        /\ (Present(m.name) /\ Len(ToStr(m.name)) <= 50) => f.name = m.name

\* one row kept its mapped name and phone although its text names others,
\* and one row had its mapped name of 51 characters replaced
C18_Witness ==
  \E r \in Runs : \E k, j \in Parsed(r) :
    /\ Triggered(r, k)
    /\ Present(Mapped(r, k).name)
    /\ Present(Mapped(r, k).phone)
    /\ NameMatch(CompositeString(LoggedRow(r, k))) # Undef
    /\ run[r].log[k].fields.name = Mapped(r, k).name
    /\ run[r].log[k].fields.age # Mapped(r, k).age
    /\ Triggered(r, j)
    /\ Len(ToStr(Mapped(r, j).name)) > 50
    /\ run[r].log[j].fields.name # Mapped(r, j).name

\* C19: no failure on one image aborts the upload: whether creating the
\* image directory failed, writing an image fails, or reading the size of or
\* deleting a superseded image fails, a step of the image loop goes on to the
\* next image or to the header scan and never ends the request as failed.
C19_ImageFailureNotFatal ==
  [][ \A r \in Runs :
        (run[r].wb # "" /\ run[r].pc = "images") =>
          /\ run'[r].status # 500
          /\ run'[r].pc \in {"images", "rows", "done"}
          /\ run'[r].pc = "images" => run'[r].imgIdx = run[r].imgIdx + 1 ]_vars

\* request q arrived after request r had made its writes to the store:
\* r has answered, and the store q found on arrival held all r inserted
ArrivedAfter(q, r) ==
  /\ run[r].wb # ""
  /\ run[q].wb # ""
  /\ run[r].up < run[q].up
  /\ run[r].pc = "done"
  /\ Len(run[q].store0) = Len(run[r].store0) + run[r].inserted

\* C20 (one after the other): when an upload arrives after the other has
\* inserted its records, no record added to the store after its arrival
\* repeats an email the store held on its arrival, so the row pair with the
\* same email in the two uploads gives one record.
C20_NoDuplicateInSequence ==
  \A r, q \in Runs :
    ArrivedAfter(q, r) =>
      \A i \in 1..Len(run[q].store0) :
        \A j \in (Len(run[q].store0) + 1)..Len(store) :
          Present(store[i].email) => store[i].email # store[j].email

\* C20 (interleaved): two uploads of the workbook with one row have both
\* passed the lookup of its email before either inserted, and the store holds
\* two records with that email, one of each upload
C20_Witness ==
  /\ \A r \in Runs :
       /\ run[r].wb = "alice"
       /\ run[r].pc = "done"
       /\ run[r].status = 200
       /\ run[r].inserted = 1
       /\ Holders(run[r].store0, AliceEmail) = {}
  /\ Cardinality(Holders(store, AliceEmail)) = 2

\* the paths whose blob a step replaces by the bytes of another picture
\* (the same picture of the same workbook, uploaded again, has the same bytes)
Overwritten ==
  { p \in DOMAIN sink \cap DOMAIN sink' :
      <<sink'[p].id, sink'[p].size>> # <<sink[p].id, sink[p].size>> }

\* the requests whose image loop makes the step
Writers ==
  { q \in Runs : run'[q].imgIdx # run[q].imgIdx }

\* C21: writing an image never overwrites the blob of a different image that
\* is still referenced: no step replaces the blob under a path that a record
\* of the store has as its photo, or that the image map of another request
\* in progress holds.
C21_NoOverwriteOfReferenced ==
  [][ \A p \in Overwritten :
        /\ \A i \in 1..Len(store) : store[i].photo # p
        /\ \A q \in Runs \ Writers :
             run[q].pc \notin {"idle", "done"} =>
               \A k \in DOMAIN run[q].imageMap : run[q].imageMap[k] # p ]_vars

\* the synonyms of a list that head a cell of the row, by position in the list
PresentSynonyms(r, k, synonyms) ==
  { j \in 1..Len(synonyms) :
      \E i \in AssignedCols(Headers(r), LoggedRow(r, k)) :
        Headers(r)[i] = synonyms[j] }

\* the cell under the first synonym of the list that heads a cell of the
\* row, whatever the cell holds; absent when no synonym heads a cell
FirstPresent(r, k, synonyms) ==
  IF PresentSynonyms(r, k, synonyms) = {} THEN Undef
  ELSE ItemGet(Headers(r), LoggedRow(r, k),
               synonyms[MinOf(PresentSynonyms(r, k, synonyms))])

\* C22: for each canonical field the mapped value is the value of the first
\* synonym, in the order of the table, that is present as a column of the
\* row, whatever that value is, and the field is absent when none of its
\* synonyms is present (read on the rows the fallback does not touch, whose
\* fields are the mapped ones).
C22_FirstPresentSynonymWins ==
  \A r \in Runs : \A k \in Parsed(r) :
    ~Triggered(r, k) =>
      LET f == run[r].log[k].fields
      IN  /\ f.name  = FirstPresent(r, k, NameSynonyms)
          /\ f.email = FirstPresent(r, k, EmailSynonyms)
          /\ f.phone = FirstPresent(r, k, PhoneSynonyms)
          /\ f.exp   = FirstPresent(r, k, ExpSynonyms)
          /\ f.age   = FirstPresent(r, k, AgeSynonyms)

\* the number staged for a field is 0 exactly when the value of the row is
\* absent, no number, or the number zero, and is the value's number otherwise
CoercedFrom(n, v) ==
  /\ ~n.nan
  /\ n = Zero <=> (v = Undef \/ NumberOf(v).nan \/ NumberOf(v) = Zero)
  /\ n # Zero => n = NumberOf(v)

\* C23: in every record staged for insertion, experience years and age are
\* numbers; each is 0 exactly when the row's value for it is absent,
\* non-numeric or numerically zero, and otherwise it is the numeric value of
\* the row's cell.
C23_NumericCoercion ==
  \A r \in Runs : \A k \in DOMAIN run[r].log :
    run[r].log[k].outcome = "new" =>
      LET rec == run[r].processed[StagedIndex(run[r].log, k)]
          f == run[r].log[k].fields
      IN  /\ CoercedFrom(rec.experience_years, f.exp)
          /\ CoercedFrom(rec.age, f.age)

\* C23: the four rows of the workbook with experience and age columns are
\* staged: a decimal text gives 2.5, a text that is no number gives 0, an
\* absent age gives 0, the text "0" gives 0 and a numeric cell its value
C23_Witness ==
  \E r \in Runs :
    /\ run[r].wb = "years"
    /\ Len(run[r].log) = 4
    /\ \A k \in 1..4 : run[r].log[k].outcome = "new"
    /\ Len(run[r].processed) = 4
    /\ run[r].processed[2].experience_years = NumberVal(2, <<"5">>)
    /\ run[r].processed[2].age = NumberVal(41, <<>>)
    /\ run[r].log[3].fields.exp = Str(<<"n","/","a">>)
    /\ run[r].processed[3].experience_years = Zero
    /\ run[r].log[3].fields.age = Undef
    /\ run[r].processed[3].age = Zero
    /\ run[r].log[4].fields.age = Str(<<"0">>)
    /\ run[r].processed[4].age = Zero
    /\ run[r].processed[4].experience_years = NumberVal(7, <<>>)

\* the request went through the row loop and answered with its report
Reported(r) ==
  /\ run[r].pc = "done"
  /\ run[r].status = 200
  /\ run[r].headerRowIndex >= 0

\* C24: for every upload that reaches the row loop and completes, every data
\* row has one outcome, which for a non-blank row is one of staged as new,
\* photo-updated, skipped with an error entry and skipped silently; added
\* (the length of processed) is the number of staged-new rows plus the number
\* of photo-updated rows, and errors has one entry per row skipped with an
\* error.  The accounting holds after every row, so also for the uploads
\* whose row loop ended and whose insertMany then failed.
C24_OutcomesAccountForReport ==
  \A r \in Runs :
    /\ Reported(r) => Len(run[r].log) = Len(DataRows(r))
    /\ \A k \in DOMAIN run[r].log :
         /\ run[r].log[k].offset = k - 1
         /\ run[r].log[k].outcome = "blank" <=> DataRows(r)[k] = <<>>
         /\ run[r].log[k].outcome \in
              {"blank", "new", "updated", "error", "exists", "silent"}
    /\ Len(run[r].processed) =
         CountOutcomes(run[r].log, {"new"}) + CountOutcomes(run[r].log, {"updated"})
    /\ Len(run[r].errors) = CountOutcomes(run[r].log, {"error", "exists"})

\* C24: an upload has answered with its report after rows of three outcomes:
\* staged as new, skipped with an error entry and skipped silently
C24_Witness ==
  \E r \in Runs :
    /\ Reported(r)
    /\ CountOutcomes(run[r].log, {"new"}) > 0
    /\ CountOutcomes(run[r].log, {"error"}) > 0
    /\ CountOutcomes(run[r].log, {"silent"}) > 0
    /\ Len(run[r].errors) < Cardinality(Parsed(r)) - Len(run[r].processed)

\* the text String(undefined) gives
UndefinedText ==
  <<"u","n","d","e","f","i","n","e","d">>

\* the k-th logged row of request r was staged as a new record with an email
\* and without a phone
EmailOnly(r, k) ==
  /\ run[r].log[k].outcome = "new"
  /\ Present(run[r].log[k].fields.email)
  /\ run[r].log[k].fields.phone = Undef

\* C28: a row accepted as a new record on the strength of its email alone,
\* its phone absent after mapping and fallback, is staged with the phone text
\* "undefined", and once the upload has answered the store holds a record
\* with the row's email and that phone text, not an empty phone.
C28_AbsentPhoneStoredAsUndefined ==
  \A r \in Runs : \A k \in DOMAIN run[r].log :
    EmailOnly(r, k) =>
      /\ run[r].processed[StagedIndex(run[r].log, k)].phone = UndefinedText
      /\ Reported(r) =>
           \E i \in (Len(run[r].store0) + 1)..Len(store) :
             /\ store[i].email = run[r].log[k].fields.email
             /\ store[i].phone = UndefinedText

\* C28: the upload of the workbook with name and email columns only has
\* answered, and the record stored for lee@x.com has the phone "undefined"
C28_Witness ==
  \E r \in Runs : \E i \in 1..Len(store) :
    /\ run[r].wb = "pics"
    /\ Reported(r)
    /\ EmailOnly(r, 1)
    /\ store[i].email = Str(<<"l","e","e","@","x",".","c","o","m">>)
    /\ store[i].phone = UndefinedText

\* C25: the candidate edit operation never changes a record's email or
\* identifier, whatever fields the request body carries: a step of the edit
\* route keeps the number of records and the identifier and email of each,
\* so the records holding an email are the same before and after.
C25_EditKeepsEmailAndId ==
  [][ resp'.route = "edit" =>
        /\ Len(store') = Len(store)
        /\ \A i \in 1..Len(store) :
             /\ store'[i].id = store[i].id
             /\ store'[i].email = store[i].email
             /\ Holders(store', store[i].email) = Holders(store, store[i].email) ]_vars

\* C25: an edit of the first candidate whose body carried the identifier and
\* the email of the second candidate, and a status, was answered with 200:
\* the status is set, identifier and email are the record's own
C25_Witness ==
  /\ resp.route = "edit"
  /\ resp.status = 200
  /\ Len(store) = 2
  /\ store[1].status = "shortlisted"
  /\ store[1].id = 1
  /\ store[1].email = SeedBob.email
  /\ store[2].email = SeedDan.email

\* the request with that header carries a token whose uid has a user record
\* with a role that, lower-cased, is in the allowed list of the route
Authorized(header, route) ==
  /\ TokenOf(header) # <<>>
  /\ \E i \in 1..Len(users) :
       /\ users[i].uid = VerifyToken(header).uid
       /\ users[i].uid # ""
       /\ ToLowerCase(users[i].role) \in AllowedRoles(route)

\* the uid of the header's token has a user record
HasRecord(header) ==
  \E i \in 1..Len(users) :
    users[i].uid = VerifyToken(header).uid /\ users[i].uid # ""

\* C26: the body of a role-gated route runs only for a request that carries
\* a token and whose uid has a user record with a role, lower-cased, in the
\* route's allowed list (for the upload: the caller's header); a request
\* without a token is answered 401, one whose uid has no user record 404 and
\* one whose role is outside the list 403 (500 when the lookup of the user
\* fails), and in each of these cases the handler does not run and the
\* collections, the files and the upload state are unchanged.
C26_GatedRoutes ==
  [][ IF run' # run \/ uploads' # uploads
        THEN Authorized(DevHeader, "upload")
        ELSE /\ resp'.ran => Authorized(resp'.header, resp'.route)
             /\ ~Authorized(resp'.header, resp'.route) =>
                  /\ ~resp'.ran
                  /\ UNCHANGED <<store, nextId, sink, dirExists, users, interviews>>
             /\ TokenOf(resp'.header) = <<>> => resp'.status = 401
             /\ (VerifyToken(resp'.header).status = 0 /\ ~HasRecord(resp'.header)) =>
                  resp'.status \in {404, 500}
             /\ (HasRecord(resp'.header) /\ ~Authorized(resp'.header, resp'.route)) =>
                  resp'.status \in {403, 500} ]_vars

\* C26: the seed user, whose role is stored as "Admin", has made the
\* candidate account a staff member, and that account's request to the
\* delete route, which allows administrators only, was answered 403 with both
\* candidates still in the store
C26_Witness ==
  /\ SeedUsers[1].role = <<"A","d","m","i","n">>
  /\ users[3].uid = "uid-candidate"
  /\ users[3].role = <<"s","t","a","f","f">>
  /\ resp = Answer("delete", <<"B","e","a","r","e","r"," ","t","2">>, 403, FALSE)
  /\ Len(store) = 2

\* the day an interview is dated
DayOf(interview) ==
  CHOOSE d \in (FirstDay - 1)..LastDay : IsoDay(d) = interview.date

\* the interview is Scheduled and dated strictly before the day
Overdue(interview, day) ==
  interview.status = "Scheduled" /\ DayOf(interview) < day

\* C27: each listing of interviews moves every interview that is Scheduled
\* and dated strictly before the current day to Completed and changes no
\* other interview, so after the listing no interview is both Scheduled and
\* dated before that day, and an interview that is Completed or Cancelled
\* keeps its status.
C27_ListingCompletesOverdue ==
  [][ (resp'.route = "interviews" /\ today' = today) =>
        /\ Len(interviews') = Len(interviews)
        /\ \A i \in 1..Len(interviews) :
             /\ Overdue(interviews[i], today) =>
                  interviews'[i] = [interviews[i] EXCEPT !.status = "Completed"]
             /\ ~Overdue(interviews[i], today) => interviews'[i] = interviews[i]
             /\ interviews[i].status \in {"Completed", "Cancelled"} =>
                  interviews'[i].status = interviews[i].status
             /\ ~Overdue(interviews'[i], today) ]_vars

\* C27: after a listing, the interview dated the day before is Completed and
\* the interview dated the current day is still Scheduled
C27_Witness ==
  /\ resp.route = "interviews"
  /\ resp.status = 200
  /\ Len(interviews) = 2
  /\ interviews[1].date = IsoDay(today - 1)
  /\ interviews[1].status = "Completed"
  /\ interviews[2].date = IsoDay(today)
  /\ interviews[2].status = "Scheduled"

====
